---- MODULE Spec2Model ----
(***************************************************************************)
(* VitalSync cloud functions (functions/python/main.py): the Garmin        *)
(* session lifecycle, the sync orchestrator (_do_sync) and the page-cursor *)
(* backfill controller (garmin_backfill), as a state machine over the      *)
(* document store, the provider and the in-flight invocations.             *)
(***************************************************************************)
EXTENDS Integers, Sequences, FiniteSets, TLC

\* ------------------------------------------------------------------------
\* Program constants (main.py)
\* ------------------------------------------------------------------------
PAGE_SIZE == 100
MAX_PAGES_PER_CALL == 50
LOGIN_DAYS == 30
ONDEMAND_DAYS == 2
SCHEDULED_DAYS == 1
RECENT_LIMIT == 20
COMPLETE_PROGRESS == 100
BATCH_LIMIT == 450
SEQ_LIMIT == 100
MAX_DEPTH == 10
WEEKS == 52
MONTHS == 24

\* ------------------------------------------------------------------------
\* Bounds of the model
\* ------------------------------------------------------------------------
\* environment events (outages, payload changes, tampering, token rotation)
\* per behaviour
MaxEnvEvents == 1
\* token generations a session can rotate through
MaxGen == 1
\* largest caller-supplied startPage
MaxStartPage == 1
\* backfill invocations per behaviour
MaxInvocations == 2
\* size of the provider's last, short page
ShortPage == 37
\* metric payloads of one sync that the store does not take as they are
MaxFaults == 2
\* a day-window backfill request: days to go back, and days per call
DaysBack == 200
ChunkDays == 60
\* the current date, as a day number
Today == 100
\* write operations of one write sequence
MaxOps == 1000
\* aggregation: the days date.today() ranges over, the activities of a log
MaxDays == 7
MaxLog == 2
\* deepest nesting of a sanitizer argument, and the length of an oversized
\* sequence
MaxNest == 11
LongLen == 150

NoValue == "none"
NoAuth == "anonymous"

Users == {"u1", "u2", "u3"}
Metrics ==
    {"stats", "heartRates", "sleep", "stress", "bodyComp", "hrv", "spo2",
     "respiration", "trainingReadiness"}
Endpoints == {"activities", "full_name", "garth_profile", "social_profile", "login"}
Procs == {"login", "disconnect", "ondemand", "scheduled", "backfill", "stats"}
UserOrder == <<"u1", "u2", "u3">>
\* the display-name lookups in the order _restore_client tries them, the
\* name each one answers with, and the marker of a lookup that answers
\* without a name
Lookups == <<"full_name", "garth_profile", "social_profile">>
NameOf == [full_name |-> "name", garth_profile |-> "profile name",
           social_profile |-> "social name"]
BlankOf == [full_name |-> "full_name:blank", garth_profile |-> "garth_profile:blank",
            social_profile |-> "social_profile:blank"]
Credentials == {"missing", "wrong", "mfa", "good"}
\* the callers of the callable functions; the other users are reached by
\* the scheduled sync only
Callers == {"u1", NoAuth}
Dates == (Today - LOGIN_DAYS + 1)..Today

Min(a, b) == IF a < b THEN a ELSE b

VARIABLES
    cfg,          \* users/{uid}: the garmin config of each user
    dailies,      \* users/{uid}/garminDailies/{date}: metric fields
    activities,   \* users/{uid}/activities/{id}: id -> source
    stats,        \* users/{uid}/activityStats: the activities the rollups cover
    listing,      \* the provider's activity listing of each user
    metricState,  \* the provider's answer for each metric getter
    down,         \* provider endpoints that currently raise, and name
                  \* lookups that currently answer without a name
    budget,       \* environment events and backfill invocations left, and
                  \* whether invocations overlap
    proc,         \* the in-flight invocation of each function
    last,         \* the outcome of the flow that ended last
    batch,        \* a write sequence: the pending batch, its counter, the commits
    sanitizing,   \* a call of _sanitize_for_firestore: its argument and result
    statToday,    \* _compute_all_stats: date.today()
    statLog,      \* _compute_all_stats: the user's stored activities
    statDocs,     \* users/{uid}/activityStats/{doc_id} of that user
    statRuns      \* aggregation runs since the activities or the date changed

\* the state of the write sequences, sanitizer calls and aggregation runs
\* that are looked at one at a time
detail == <<batch, sanitizing, statToday, statLog, statDocs, statRuns>>

vars ==
    <<cfg, dailies, activities, stats, listing, metricState, down, budget, proc, last,
      batch, sanitizing, statToday, statLog, statDocs, statRuns>>

NoRuns == [total |-> 0, sinceChange |-> 0, written |-> {}, raised |-> FALSE]
NoBatch == [fn |-> NoValue, pc |-> "idle", staged |-> 0, count |-> 0, pending |-> {},
            commits |-> <<>>]
NoData == [t |-> "unset"]
NoCall == [data |-> NoData, result |-> NoData, done |-> FALSE]

DetailIdle ==
    /\ batch = NoBatch
    /\ sanitizing = NoCall
    /\ statToday = 0
    /\ statLog = <<>>
    /\ statDocs = <<>>
    /\ statRuns = NoRuns

\* ------------------------------------------------------------------------
\* Credential vault and sessions
\* ------------------------------------------------------------------------
NoSession == [owner |-> NoValue, gen |-> 0]
NoBlob == [pt |-> NoSession, intact |-> FALSE, present |-> FALSE]

\* encrypt(): nonce + AES-GCM ciphertext and tag
encrypt(plaintext) == [pt |-> plaintext, intact |-> TRUE, present |-> TRUE]
\* decrypt() raises when the tag does not verify
DecryptOk(blob) == blob.intact
decrypt(blob) == blob.pt

NoConfig ==
    [exists |-> FALSE, connected |-> FALSE, garthSession |-> NoBlob,
     garminEmail |-> FALSE, displayName |-> NoValue,
     backfillStatus |-> NoValue, backfillProgress |-> <<>>,
     connectedAt |-> NoValue, disconnectedAt |-> NoValue, lastSyncAt |-> NoValue]

\* ------------------------------------------------------------------------
\* Field fetcher and sanitizer, as far as the store can tell payloads apart
\* ------------------------------------------------------------------------
\* _safe_call: the default on any exception
SafeCall(ok, value, default) == IF ok THEN value ELSE default

\* one metric getter through _safe_call(..., default={})
FetchMetric(m) == SafeCall(metricState[m] # "down", metricState[m], "empty")

\* _sanitize_for_firestore on a metric payload
Sanitize(d) ==
    CASE d = "empty" -> "empty"
      [] d = "payload" -> "san"
      [] d = "exotic" -> "san_exotic"
      [] d = "toxic" -> "san_toxic"
      [] d = "json_exotic" -> "san_json"
      [] d = "json_toxic" -> "san_json_toxic"

\* json.loads(json.dumps(field_data, default=str))
JsonRoundTrip(d) ==
    CASE d = "exotic" -> "json_exotic"
      [] d = "toxic" -> "json_toxic"
      [] OTHER -> d

\* whether ref.set accepts the sanitized value
StoreAccepts(v) == v \in {"empty", "san", "san_json"}

\* variant: a rejected field is dropped at once
FieldWriteNoRetry(old, d) ==
    IF StoreAccepts(Sanitize(d)) THEN Sanitize(d) ELSE old

\* variant: a write that tells a value written again from a first write
FieldWriteDuplicating(old, d) ==
    LET new == IF StoreAccepts(Sanitize(d)) THEN Sanitize(d)
               ELSE IF StoreAccepts(Sanitize(JsonRoundTrip(d)))
               THEN Sanitize(JsonRoundTrip(d))
               ELSE old
    IN IF new = old /\ old \notin {"absent", "empty"} THEN "duplicate" ELSE new

\* the try / retry / drop write of one metric field: the field's new value
FieldWrite(old, d) ==
    IF StoreAccepts(Sanitize(d)) THEN Sanitize(d)
    ELSE IF StoreAccepts(Sanitize(JsonRoundTrip(d))) THEN Sanitize(JsonRoundTrip(d))
    ELSE old

\* variant: one write of the whole record, given up when a getter raised
WriteDayAllOrNothing(doc) ==
    IF \E m \in Metrics : metricState[m] = "down" THEN doc
    ELSE [m \in Metrics |-> FieldWrite(doc[m], metricState[m])]

\* variant: a metric whose getter raised is not written
WriteDaySkipFailed(doc) ==
    [m \in Metrics |->
        IF metricState[m] = "down" THEN doc[m] ELSE FieldWrite(doc[m], FetchMetric(m))]

\* the nine per-field merge writes of one date
WriteDay(doc) == [m \in Metrics |-> FieldWrite(doc[m], FetchMetric(m))]

\* ------------------------------------------------------------------------
\* Provider activity listing and activity upserts
\* ------------------------------------------------------------------------
\* variant: a listing call that ignores its limit
ListActivitiesUnlimited(lst, start, limit) == (start + 1)..lst.len

\* client.get_activities(start, limit): activities are numbered 1..len,
\* most recent first
ListActivities(lst, start, limit) == (start + 1)..Min(lst.len, start + limit)

\* activities of a page that reach the batch: an activityId and no error
\* while sanitizing and staging
Staged(lst, acts) == {a \in acts : a \notin lst.noid /\ a \notin lst.unstageable}

\* batch.commit() raises when the store rejects a staged document
CommitOk(lst, staged) == staged \cap lst.oversize = {}

\* variant: a write that tells a rewritten document from a new one
UpsertRevision(docs, staged, source) ==
    [a \in staged |-> IF a \in DOMAIN docs THEN "rewritten" ELSE source] @@ docs

\* batch.set(ref, clean_act, merge=True) for every staged activity
Upsert(docs, staged, source) == [a \in staged |-> source] @@ docs

\* _compute_all_stats: the rollups are computed from all stored activities
NoStats == [computed |-> FALSE, acts |-> {}]
ComputeAllStats(docs) == [computed |-> TRUE, acts |-> DOMAIN docs]

\* ------------------------------------------------------------------------
\* Invocations
\* ------------------------------------------------------------------------
IdleProc ==
    [pc |-> "idle", uid |-> NoValue, creds |-> NoValue, client |-> NoSession,
     lookups |-> <<>>, days |-> 0, i |-> 0,
     queue |-> <<>>, log |-> [u \in Users |-> "none"],
     start |-> 0, page |-> 0, total |-> 0, found |-> FALSE, fetched |-> <<>>,
     listFailed |-> FALSE, statsCalls |-> 0, restored |-> FALSE, saved |-> FALSE,
     inChain |-> FALSE, window |-> <<>>,
     replay |-> FALSE, prevHasMore |-> FALSE, prevNextPage |-> <<>>]

\* what is kept of an invocation once its flow ended
EndRun(pr) ==
    [uid |-> pr.uid, creds |-> pr.creds, restored |-> pr.restored, saved |-> pr.saved, log |-> pr.log,
     start |-> pr.start, total |-> pr.total, fetched |-> pr.fetched,
     listFailed |-> pr.listFailed, statsCalls |-> pr.statsCalls,
     inChain |-> pr.inChain, window |-> pr.window, replay |-> pr.replay,
     prevHasMore |-> pr.prevHasMore, prevNextPage |-> pr.prevNextPage]

NoOutcome ==
    [p |-> NoValue, status |-> "none", code |-> NoValue, hasMore |-> FALSE,
     nextPage |-> <<>>, run |-> EndRun(IdleProc)]

Outcome(p, pr, status, code, hasMore, nextPage) ==
    [p |-> p, status |-> status, code |-> code, hasMore |-> hasMore,
     nextPage |-> nextPage, run |-> EndRun(pr)]

\* the invocation of p returns or raises to its caller; the instance, and
\* with it garth.client, is not shared with the next invocation
Finish(p, pr, status, code, hasMore, nextPage) ==
    /\ last' = Outcome(p, pr, status, code, hasMore, nextPage)
    /\ proc' = [proc EXCEPT ![p] = IdleProc]

\* variant: the first failing user ends the loop
SchedAbortOnError(pr) ==
    [pr EXCEPT !.pc = "sched_next", !.log[pr.uid] = "failed", !.queue = <<>>]

\* variant: the except clause persists the session before it goes on
SchedSaveOnError(pr) == [pr EXCEPT !.pc = "save", !.log[pr.uid] = "failed"]

\* garmin_scheduled_sync's except clause: log and go on with the next user
SchedOnError(pr) == [pr EXCEPT !.pc = "sched_next", !.log[pr.uid] = "failed"]

\* an exception leaves the current step of p
Throw(p, pr, code) ==
    IF p = "scheduled"
    THEN /\ last' = Outcome(p, pr, "error", code, FALSE, <<>>)
         /\ proc' = [proc EXCEPT ![p] = SchedOnError(pr)]
    ELSE IF p = "login"
    THEN Finish(p, pr, "error", "PERMISSION_DENIED", FALSE, <<>>)
    ELSE Finish(p, pr, "error", code, FALSE, <<>>)

\* the provider may rotate the session's tokens on any call
Rotate(s) == [s EXCEPT !.gen = @ + 1]
Rotations(s) ==
    {<<s, budget>>} \cup
    (IF budget.events > 0 /\ s.gen < MaxGen
     THEN {<<Rotate(s), [budget EXCEPT !.events = @ - 1]>>} ELSE {})

\* ------------------------------------------------------------------------
\* _restore_client
\* ------------------------------------------------------------------------
\* a lookup that neither raises nor answers without a name
Named(e) == e \notin down /\ BlankOf[e] \notin down

\* variant: the social profile is asked first
ResolveDisplayNameSocialFirst(stored) ==
    IF stored # NoValue THEN stored
    ELSE IF Named("social_profile") THEN NameOf["social_profile"]
    ELSE IF Named("full_name") THEN NameOf["full_name"]
    ELSE IF Named("garth_profile") THEN NameOf["garth_profile"]
    ELSE NoValue

\* the display-name fallback chain, each lookup in its own try/except
ResolveDisplayName(stored) ==
    IF stored # NoValue THEN stored
    ELSE IF Named("full_name") THEN NameOf["full_name"]
    ELSE IF Named("garth_profile") THEN NameOf["garth_profile"]
    ELSE IF Named("social_profile") THEN NameOf["social_profile"]
    ELSE NoValue

\* the lookups the chain calls: each "if not display_name" guards the next
LookupsMade(stored) ==
    IF stored # NoValue THEN <<>>
    ELSE IF Named("full_name") THEN <<"full_name">>
    ELSE IF Named("garth_profile") THEN <<"full_name", "garth_profile">>
    ELSE Lookups

\* where a function goes on once the client is restored
AfterRestore(p) == IF p = "backfill" THEN "bf_mark" ELSE "sync_day"

RestoreClient(p) ==
    /\ proc[p].pc = "restore"
    /\ LET u == proc[p].uid
           c == cfg[u]
           pr == proc[p]
       IN
       IF ~c.exists THEN
          \* settings is None: settings.get raises AttributeError
          /\ Throw(p, pr, "INTERNAL")
          /\ UNCHANGED <<detail, stats, cfg, dailies, activities, listing, metricState, down, budget>>
       ELSE IF ~c.connected \/ ~c.garthSession.present THEN
          /\ Throw(p, pr, "FAILED_PRECONDITION")
          /\ UNCHANGED <<detail, stats, cfg, dailies, activities, listing, metricState, down, budget>>
       ELSE IF ~DecryptOk(c.garthSession) THEN
          /\ Throw(p, pr, "INTERNAL")
          /\ UNCHANGED <<detail, stats, cfg, dailies, activities, listing, metricState, down, budget>>
       ELSE
          LET name == ResolveDisplayName(c.displayName) IN
          /\ proc' = [proc EXCEPT ![p] =
                        [pr EXCEPT !.client = decrypt(c.garthSession),
                                   !.lookups = LookupsMade(c.displayName),
                                   !.restored = TRUE,
                                   !.pc = AfterRestore(p)]]
          /\ cfg' = IF name # NoValue /\ c.displayName = NoValue
                    THEN [cfg EXCEPT ![u].displayName = name]
                    ELSE cfg
          /\ UNCHANGED <<detail, stats, dailies, activities, listing, metricState, down, budget, last>>

\* ------------------------------------------------------------------------
\* _save_session
\* ------------------------------------------------------------------------
\* set({'garmin': {garthSession, lastSyncAt}}, merge=True)
SaveSession(c, client, p) ==
    [c EXCEPT !.exists = TRUE, !.garthSession = encrypt(client), !.lastSyncAt = "set"]

Active == {p \in Procs : proc[p].pc # "idle"}
\* invocations of the multi-step functions are taken one after the other,
\* unless the behaviour lets them overlap
CanStart(p) == proc[p].pc = "idle" /\ (Active = {} \/ budget.overlap)

\* the _save_session call of a flow, and where the flow goes on
SaveStep(p) ==
    /\ proc[p].pc = "save"
    /\ LET pr == [proc[p] EXCEPT !.saved = TRUE]
           u == pr.uid
       IN
       /\ cfg' = [cfg EXCEPT ![u] = SaveSession(@, pr.client, p)]
       /\ CASE p = "ondemand" -> Finish(p, pr, "ok", NoValue, FALSE, <<>>)
            [] p = "scheduled" ->
                 /\ last' = Outcome(p, pr, "ok", NoValue, FALSE, <<>>)
                 /\ proc' = [proc EXCEPT ![p] =
                               [pr EXCEPT !.pc = "sched_next", !.log[u] = "ok"]]
            [] p = "login" ->
                 /\ proc' = [proc EXCEPT ![p] = [pr EXCEPT !.pc = "login_complete"]]
                 /\ UNCHANGED last
            [] p = "backfill" ->
                 /\ proc' = [proc EXCEPT ![p] = [pr EXCEPT !.pc = "bf_after_save"]]
                 /\ UNCHANGED last
    /\ UNCHANGED <<detail, stats, dailies, activities, listing, metricState, down, budget>>

\* ------------------------------------------------------------------------
\* _do_sync
\* ------------------------------------------------------------------------
\* one iteration of the day loop: nine fetches, nine per-field merge writes
DoSyncDay(p) ==
    /\ proc[p].pc = "sync_day"
    /\ LET pr == proc[p]
           u == pr.uid
           d == Today - pr.i
       IN
       /\ dailies' = [dailies EXCEPT ![u][d] = WriteDay(@)]
       /\ \E r \in Rotations(pr.client) :
            /\ budget' = r[2]
            /\ proc' = [proc EXCEPT ![p] =
                          [pr EXCEPT !.client = r[1],
                                     !.i = @ + 1,
                                     !.pc = IF pr.i + 1 < pr.days
                                            THEN "sync_day" ELSE "sync_acts"]]
    /\ UNCHANGED <<detail, stats, cfg, activities, listing, metricState, down, last>>

\* the recent activities: one listing call, one batch, one commit
DoSyncActivities(p) ==
    /\ proc[p].pc = "sync_acts"
    /\ LET pr == proc[p]
           u == pr.uid
           acts == SafeCall("activities" \notin down,
                            ListActivities(listing[u], 0, RECENT_LIMIT), {})
           staged == Staged(listing[u], acts)
       IN
       IF CommitOk(listing[u], staged)
       THEN /\ activities' = [activities EXCEPT ![u] = Upsert(@, staged, "garmin_pull")]
            /\ proc' = [proc EXCEPT ![p] = [pr EXCEPT !.pc = "save"]]
            /\ UNCHANGED last
       ELSE /\ Throw(p, pr, "INTERNAL")
            /\ UNCHANGED activities
    /\ UNCHANGED <<detail, stats, cfg, dailies, listing, metricState, down, budget>>

\* ------------------------------------------------------------------------
\* garmin_sync_on_demand
\* ------------------------------------------------------------------------
GarminSyncOnDemand(caller) ==
    /\ CanStart("ondemand")
    /\ IF caller = NoAuth
       THEN Finish("ondemand", [proc["ondemand"] EXCEPT !.uid = caller],
                   "error", "UNAUTHENTICATED", FALSE, <<>>)
       ELSE /\ proc' = [proc EXCEPT !["ondemand"] =
                          [IdleProc EXCEPT !.pc = "restore", !.uid = caller,
                                                     !.days = ONDEMAND_DAYS]]
            /\ UNCHANGED last
    /\ UNCHANGED <<detail, stats, cfg, dailies, activities, listing, metricState, down, budget>>

\* ------------------------------------------------------------------------
\* garmin_scheduled_sync
\* ------------------------------------------------------------------------
\* users where garmin.connected == true, in document order
ConnectedUsers == SelectSeq(UserOrder, LAMBDA u : cfg[u].exists /\ cfg[u].connected)

GarminScheduledSync ==
    /\ CanStart("scheduled")
    /\ proc' = [proc EXCEPT !["scheduled"] =
                  [IdleProc EXCEPT
                     !.pc = "sched_next",
                     !.queue = ConnectedUsers,
                     !.log = [u \in Users |->
                                IF cfg[u].exists /\ cfg[u].connected
                                THEN "pending" ELSE "none"]]]
    /\ UNCHANGED <<detail, stats, cfg, dailies, activities, listing, metricState, down, budget, last>>

\* the for loop over the streamed users
SchedNext ==
    /\ proc["scheduled"].pc = "sched_next"
    /\ LET pr == proc["scheduled"] IN
       IF pr.queue = <<>>
       THEN Finish("scheduled", pr, "done", NoValue, FALSE, <<>>)
       ELSE /\ proc' = [proc EXCEPT !["scheduled"] =
                          [pr EXCEPT !.pc = "restore", !.uid = Head(pr.queue),
                                     !.queue = Tail(pr.queue), !.days = SCHEDULED_DAYS,
                                     !.i = 0, !.restored = FALSE, !.saved = FALSE,
                                     !.lookups = <<>>]]
            /\ UNCHANGED last
    /\ UNCHANGED <<detail, stats, cfg, dailies, activities, listing, metricState, down, budget>>

\* ------------------------------------------------------------------------
\* garmin_login
\* ------------------------------------------------------------------------
\* the display name of a fresh login: get_full_name is not guarded
LoginDisplayName ==
    IF Named("full_name") THEN NameOf["full_name"]
    ELSE IF Named("garth_profile") THEN NameOf["garth_profile"]
    ELSE IF Named("social_profile") THEN NameOf["social_profile"]
    ELSE NoValue

\* variant: the first write marks the user connected and stores no session
LoginConfigNoSession(c, session, name) ==
    [c EXCEPT !.exists = TRUE, !.connected = TRUE, !.garminEmail = TRUE,
              !.connectedAt = "set", !.lastSyncAt = NoValue,
              !.backfillStatus = "syncing", !.backfillProgress = <<0>>,
              !.displayName = name]

\* the first write of a successful login
LoginConfig(c, session, name) ==
    [c EXCEPT !.exists = TRUE, !.connected = TRUE, !.garthSession = encrypt(session),
              !.garminEmail = TRUE, !.connectedAt = "set", !.lastSyncAt = NoValue,
              !.backfillStatus = "syncing", !.backfillProgress = <<0>>,
              !.displayName = name]

GarminLogin(caller, creds) ==
    /\ CanStart("login")
    /\ LET pr == [proc["login"] EXCEPT !.uid = caller, !.creds = creds] IN
       IF caller = NoAuth THEN
          /\ Finish("login", pr, "error", "UNAUTHENTICATED", FALSE, <<>>)
          /\ UNCHANGED cfg
       ELSE IF creds = "missing" THEN
          /\ Finish("login", pr, "error", "INVALID_ARGUMENT", FALSE, <<>>)
          /\ UNCHANGED cfg
       ELSE IF creds = "mfa" THEN
          /\ Finish("login", pr, "error", "FAILED_PRECONDITION", FALSE, <<>>)
          /\ UNCHANGED cfg
       ELSE IF creds = "wrong" \/ "login" \in down \/ "full_name" \in down THEN
          /\ Finish("login", pr, "error", "PERMISSION_DENIED", FALSE, <<>>)
          /\ UNCHANGED cfg
       ELSE
          LET session == [owner |-> caller, gen |-> 0] IN
          /\ cfg' = [cfg EXCEPT ![caller] = LoginConfig(@, session, LoginDisplayName)]
          /\ proc' = [proc EXCEPT !["login"] =
                        [IdleProc EXCEPT !.pc = "sync_day", !.uid = caller,
                                         !.creds = creds, !.client = session,
                                         !.days = LOGIN_DAYS, !.restored = TRUE]]
          /\ UNCHANGED last
    /\ UNCHANGED <<detail, stats, dailies, activities, listing, metricState, down, budget>>

\* the last write of a successful login
LoginComplete ==
    /\ proc["login"].pc = "login_complete"
    /\ LET pr == proc["login"] IN
       /\ cfg' = [cfg EXCEPT ![pr.uid].exists = TRUE,
                             ![pr.uid].backfillStatus = "complete",
                             ![pr.uid].backfillProgress = <<COMPLETE_PROGRESS>>]
       /\ Finish("login", pr, "ok", NoValue, FALSE, <<>>)
    /\ UNCHANGED <<detail, stats, dailies, activities, listing, metricState, down, budget>>

\* ------------------------------------------------------------------------
\* garmin_disconnect
\* ------------------------------------------------------------------------
GarminDisconnect(caller) ==
    /\ proc["disconnect"].pc = "idle"
    /\ LET pr == [proc["disconnect"] EXCEPT !.uid = caller] IN
       IF caller = NoAuth THEN
          /\ Finish("disconnect", pr, "error", "UNAUTHENTICATED", FALSE, <<>>)
          /\ UNCHANGED cfg
       ELSE IF ~cfg[caller].exists THEN
          \* update() of a missing document raises NotFound
          /\ Finish("disconnect", pr, "error", "NOT_FOUND", FALSE, <<>>)
          /\ UNCHANGED cfg
       ELSE
          /\ cfg' = [cfg EXCEPT ![caller].connected = FALSE,
                                ![caller].garthSession = NoBlob,
                                ![caller].garminEmail = FALSE,
                                ![caller].disconnectedAt = "set"]
          /\ Finish("disconnect", pr, "ok", NoValue, FALSE, <<>>)
    /\ UNCHANGED <<detail, stats, dailies, activities, listing, metricState, down, budget>>

\* ------------------------------------------------------------------------
\* compute_stats_on_demand
\* ------------------------------------------------------------------------
\* variant: the aggregation runs whoever calls
ComputeStatsUnchecked(caller) ==
    /\ CanStart("stats")
    /\ Finish("stats", [proc["stats"] EXCEPT !.uid = caller], "ok", NoValue, FALSE, <<>>)
    /\ UNCHANGED <<detail, stats, cfg, dailies, activities, listing, metricState, down, budget>>

ComputeStatsOnDemand(caller) ==
    /\ CanStart("stats")
    /\ LET pr == [proc["stats"] EXCEPT !.uid = caller] IN
       IF caller = NoAuth THEN
          /\ Finish("stats", pr, "error", "UNAUTHENTICATED", FALSE, <<>>)
          /\ UNCHANGED stats
       ELSE
          /\ stats' = [stats EXCEPT ![caller] = ComputeAllStats(activities[caller])]
          /\ Finish("stats", [pr EXCEPT !.statsCalls = 1], "ok", NoValue, FALSE, <<>>)
    /\ UNCHANGED <<detail, cfg, dailies, activities, listing, metricState, down, budget>>

\* ------------------------------------------------------------------------
\* Environment
\* ------------------------------------------------------------------------
\* a provider endpoint starts or stops raising
EnvEndpoint(e) ==
    /\ budget.events > 0
    /\ budget' = [budget EXCEPT !.events = @ - 1]
    /\ down' = IF e \in down THEN down \ {e} ELSE down \cup {e}
    /\ UNCHANGED <<detail, stats, cfg, dailies, activities, listing, metricState, proc, last>>

\* the provider's answer for a metric changes
EnvMetric(m, s) ==
    /\ budget.events > 0
    /\ metricState[m] # s
    /\ budget' = [budget EXCEPT !.events = @ - 1]
    /\ metricState' = [metricState EXCEPT ![m] = s]
    /\ UNCHANGED <<detail, stats, cfg, dailies, activities, listing, down, proc, last>>

\* a stored session blob is corrupted, or the key no longer matches
EnvTamper(u) ==
    /\ budget.events > 0
    /\ cfg[u].garthSession.present
    /\ cfg[u].garthSession.intact
    /\ budget' = [budget EXCEPT !.events = @ - 1]
    /\ cfg' = [cfg EXCEPT ![u].garthSession.intact = FALSE]
    /\ UNCHANGED <<detail, stats, dailies, activities, listing, metricState, down, proc, last>>

\* ------------------------------------------------------------------------
\* Specification of the session lifecycle and the sync flows
\* ------------------------------------------------------------------------
SyncListings ==
    {[len |-> RECENT_LIMIT + 5, noid |-> {2}, unstageable |-> {3}, oversize |-> {}],
     [len |-> RECENT_LIMIT + 5, noid |-> {2}, unstageable |-> {3}, oversize |-> {4}]}

\* the users that logged in before the behaviour starts
Background == Users \ Callers

NoDaily == [m \in Metrics |-> "absent"]
FirstSession(u) == [owner |-> u, gen |-> 0]
LoginSyncOk(lst) == CommitOk(lst, Staged(lst, ListActivities(lst, 0, RECENT_LIMIT)))

\* the store of a user after garmin_login ran for them
ConfigAfterLogin(u, lst) ==
    IF LoginSyncOk(lst)
    THEN [SaveSession(LoginConfig(NoConfig, FirstSession(u), "name"),
                      FirstSession(u), "login")
            EXCEPT !.backfillStatus = "complete",
                   !.backfillProgress = <<COMPLETE_PROGRESS>>]
    ELSE LoginConfig(NoConfig, FirstSession(u), "name")
\* the daily records of a user that logged in the day before: the record of
\* today is still to be written
DailiesAfterLogin == [d \in Dates |-> IF d < Today THEN [m \in Metrics |-> "san"] ELSE NoDaily]
NoDailies == [d \in Dates |-> NoDaily]
ActivitiesAfterLogin(lst) ==
    IF LoginSyncOk(lst)
    THEN Upsert(<<>>, Staged(lst, ListActivities(lst, 0, RECENT_LIMIT)), "garmin_pull")
    ELSE <<>>

Init ==
    /\ listing \in {l \in [Users -> SyncListings] :
                       \A u \in Users \ {"u2"} : l[u].oversize = {}}
    /\ metricState = [m \in Metrics |-> "payload"]
    /\ cfg = [u \in Users |->
                IF u \in Background THEN ConfigAfterLogin(u, listing[u]) ELSE NoConfig]
    /\ dailies = [u \in Users |-> IF u \in Background THEN DailiesAfterLogin ELSE NoDailies]
    /\ activities = [u \in Users |->
                       IF u \in Background THEN ActivitiesAfterLogin(listing[u]) ELSE <<>>]
    /\ stats = [u \in Users |-> NoStats]
    /\ down = {}
    /\ budget = [events |-> MaxEnvEvents, calls |-> 0, overlap |-> FALSE]
    /\ proc = [p \in Procs |-> IdleProc]
    /\ last = NoOutcome
    /\ DetailIdle

Next ==
    \/ \E caller \in Callers, creds \in Credentials : GarminLogin(caller, creds)
    \/ LoginComplete
    \/ \E caller \in Callers : GarminDisconnect(caller)
    \/ \E caller \in Callers : GarminSyncOnDemand(caller)
    \/ GarminScheduledSync
    \/ SchedNext
    \/ \E p \in {"ondemand", "scheduled"} : RestoreClient(p)
    \/ \E p \in {"login", "ondemand", "scheduled"} : DoSyncDay(p)
    \/ \E p \in {"login", "ondemand", "scheduled"} : DoSyncActivities(p)
    \/ \E p \in {"login", "ondemand", "scheduled"} : SaveStep(p)
    \/ \E e \in {"activities"} : EnvEndpoint(e)
    \/ \E u \in Users : EnvTamper(u)

Spec == Init /\ [][Next]_vars

\* ------------------------------------------------------------------------
\* garmin_backfill
\* ------------------------------------------------------------------------
\* int(req.data.get('startPage', 0)), 0 on ValueError / TypeError
StartPageOf(raw) == IF raw.kind = "int" THEN raw.value ELSE 0

\* variant: a page budget that is off by one
LoopContinuesInclusive(found, page, start) ==
    found /\ page <= start + MAX_PAGES_PER_CALL

\* the while condition of the page loop
LoopContinues(found, page, start) == found /\ page < start + MAX_PAGES_PER_CALL

\* variant: only an empty page ends the listing
ReachedEndOnEmpty(n) == n = 0

\* "if len(acts) < PAGE_SIZE: found_activities = False"
ReachedEnd(n) == n < PAGE_SIZE

\* the value written to backfillProgress after a page
PageProgress(total) == total

\* variant: the progress write leaves backfillStatus alone
ProgressWriteOnly(c, total) ==
    [c EXCEPT !.exists = TRUE, !.backfillProgress = <<PageProgress(total)>>]

\* set({'garmin': {backfillProgress, backfillStatus: 'syncing'}}, merge=True)
ProgressWrite(c, total) ==
    [c EXCEPT !.exists = TRUE, !.backfillProgress = <<PageProgress(total)>>,
              !.backfillStatus = "syncing"]

\* the return value's nextPage: page if has_more else None
NextPageOf(hasMore, page) == IF hasMore THEN <<page>> ELSE <<>>

GarminBackfill(caller, raw) ==
    /\ CanStart("backfill")
    /\ budget.calls > 0
    /\ budget' = [budget EXCEPT !.calls = @ - 1]
    /\ IF caller = NoAuth
       THEN Finish("backfill", [proc["backfill"] EXCEPT !.uid = caller],
                   "error", "UNAUTHENTICATED", FALSE, <<>>)
       ELSE LET start == StartPageOf(raw)
                \* what the caller did before: the history the claims speak of
                again == last.p = "backfill" /\ last.status = "ok" /\ last.run.uid = caller
                follows == /\ again
                           /\ last.run.inChain
                           /\ last.hasMore
                           /\ last.nextPage = <<start>>
                replay == again /\ last.run.start = start /\ ~last.run.listFailed
            IN
            /\ proc' = [proc EXCEPT !["backfill"] =
                          [IdleProc EXCEPT
                             !.pc = "restore", !.uid = caller,
                             !.start = start, !.page = start,
                             !.inChain = (start = 0 \/ follows),
                             \* daysBack and startOffset of the request: never read
                             !.window = raw.window,
                             !.replay = replay,
                             !.prevHasMore = replay /\ last.hasMore,
                             !.prevNextPage = IF replay THEN last.nextPage ELSE <<>>]]
            /\ UNCHANGED last
    /\ UNCHANGED <<detail, stats, cfg, dailies, activities, listing, metricState, down>>

\* set({'garmin': {'backfillStatus': 'syncing'}}, merge=True) and the locals
BackfillMark ==
    /\ proc["backfill"].pc = "bf_mark"
    /\ LET pr == proc["backfill"] IN
       /\ cfg' = [cfg EXCEPT ![pr.uid].exists = TRUE,
                             ![pr.uid].backfillStatus = "syncing"]
       /\ proc' = [proc EXCEPT !["backfill"] =
                     [pr EXCEPT !.pc = "bf_loop", !.total = 0, !.page = pr.start,
                                !.found = TRUE]]
    /\ UNCHANGED <<detail, stats, dailies, activities, listing, metricState, down, budget, last>>

\* one iteration of the page loop: the listing call, the page's batch and
\* commit, the progress write, and the loop condition for the next page
BackfillPage ==
    /\ proc["backfill"].pc = "bf_loop"
    /\ LET pr == proc["backfill"]
           u == pr.uid
           up == "activities" \notin down
           acts == SafeCall(up, ListActivities(listing[u], pr.page * PAGE_SIZE, PAGE_SIZE), {})
           n == Cardinality(acts)
           staged == Staged(listing[u], acts)
           seen == [pr EXCEPT !.fetched = Append(@, <<pr.page, n>>),
                              !.listFailed = @ \/ ~up]
       IN
       \E r \in Rotations(pr.client) :
         /\ budget' = r[2]
         /\ IF acts = {} THEN
                \* "if not acts: found_activities = False; break"
                /\ proc' = [proc EXCEPT !["backfill"] =
                              [seen EXCEPT !.client = r[1], !.found = FALSE, !.pc = "save"]]
                /\ UNCHANGED <<detail, stats, cfg, activities, last>>
            ELSE IF ~CommitOk(listing[u], staged) THEN
                /\ Throw("backfill", [seen EXCEPT !.client = r[1]], "INTERNAL")
                /\ UNCHANGED <<detail, stats, cfg, activities>>
            ELSE
                /\ activities' = [activities EXCEPT ![u] = Upsert(@, staged, "garmin_backfill")]
                /\ cfg' = [cfg EXCEPT ![u] = ProgressWrite(@, pr.total + n)]
                /\ proc' = [proc EXCEPT !["backfill"] =
                              [seen EXCEPT !.client = r[1],
                                           !.total = pr.total + n,
                                           !.page = pr.page + 1,
                                           !.found = ~ReachedEnd(n),
                                           !.pc = IF LoopContinues(~ReachedEnd(n), pr.page + 1,
                                                                   pr.start)
                                                  THEN "bf_loop" ELSE "save"]]
                /\ UNCHANGED last
    /\ UNCHANGED <<detail, stats, dailies, listing, metricState, down>>

\* has_more: the invocation returns with the cursor of the next one
BackfillReturnMore ==
    /\ proc["backfill"].pc = "bf_after_save"
    /\ proc["backfill"].found
    /\ LET pr == proc["backfill"] IN
       Finish("backfill", pr, "ok", NoValue, pr.found, NextPageOf(pr.found, pr.page))
    /\ UNCHANGED <<detail, stats, cfg, dailies, activities, listing, metricState, down, budget>>

\* variant: completion without the aggregation
BackfillStatsSkipped ==
    /\ proc["backfill"].pc = "bf_after_save"
    /\ ~proc["backfill"].found
    /\ proc' = [proc EXCEPT !["backfill"].pc = "bf_complete"]
    /\ UNCHANGED <<detail, stats, cfg, dailies, activities, listing, metricState, down, budget, last>>

\* not has_more: _compute_all_stats in its try/except
BackfillStats ==
    /\ proc["backfill"].pc = "bf_after_save"
    /\ ~proc["backfill"].found
    /\ stats' = [stats EXCEPT ![proc["backfill"].uid] =
                                 ComputeAllStats(activities[proc["backfill"].uid])]
    /\ proc' = [proc EXCEPT !["backfill"].statsCalls = @ + 1,
                            !["backfill"].pc = "bf_complete"]
    /\ UNCHANGED <<detail, cfg, dailies, activities, listing, metricState, down, budget, last>>

\* not has_more: mark complete and return
BackfillComplete ==
    /\ proc["backfill"].pc = "bf_complete"
    /\ LET pr == proc["backfill"] IN
       /\ cfg' = [cfg EXCEPT ![pr.uid].exists = TRUE,
                             ![pr.uid].backfillStatus = "complete",
                             ![pr.uid].backfillProgress = <<COMPLETE_PROGRESS>>]
       /\ Finish("backfill", pr, "ok", NoValue, pr.found, NextPageOf(pr.found, pr.page))
    /\ UNCHANGED <<detail, stats, dailies, activities, listing, metricState, down, budget>>

\* ------------------------------------------------------------------------
\* Specification of the page-cursor backfill
\* ------------------------------------------------------------------------
BackfillSizes ==
    {0, ShortPage, PAGE_SIZE, 2 * PAGE_SIZE + ShortPage,
     MAX_PAGES_PER_CALL * PAGE_SIZE,
     (MAX_PAGES_PER_CALL + 1) * PAGE_SIZE + ShortPage}

\* the listings of the backfilled user: one of them holds a document the
\* store rejects, on its second page
BackfillListings ==
    {[len |-> n, noid |-> {2}, unstageable |-> {3}, oversize |-> {}] : n \in BackfillSizes}
    \cup {[len |-> 2 * PAGE_SIZE + ShortPage, noid |-> {2}, unstageable |-> {3},
           oversize |-> {PAGE_SIZE + 5}]}

\* the cursors a caller sends: a first page, a malformed value, the
\* nextPage it was given, or the cursor it sent before
CursorPages ==
    (0..MaxStartPage)
    \cup (IF last.p = "backfill" /\ last.status = "ok"
          THEN {last.run.start} \cup {last.nextPage[i] : i \in DOMAIN last.nextPage}
          ELSE {})
Cursors ==
    {[kind |-> "int", value |-> n, window |-> <<>>] : n \in CursorPages}
    \cup {[kind |-> "text", value |-> 0, window |-> <<>>],
          [kind |-> "missing", value |-> 0, window |-> <<>>]}

InitBackfill ==
    /\ listing \in {l \in [Users -> BackfillListings \cup SyncListings] :
                       /\ l["u1"] \in BackfillListings
                       /\ \A u \in Background : l[u] \in SyncListings /\ l[u].oversize = {}}
    /\ metricState = [m \in Metrics |-> "payload"]
    /\ cfg = [u \in Users |->
                IF u = "u1" /\ LoginSyncOk(listing[u])
                THEN ConfigAfterLogin(u, listing[u]) ELSE NoConfig]
    /\ dailies = [u \in Users |-> IF cfg[u].exists THEN DailiesAfterLogin ELSE NoDailies]
    /\ activities = [u \in Users |->
                       IF cfg[u].exists THEN ActivitiesAfterLogin(listing[u]) ELSE <<>>]
    /\ stats = [u \in Users |-> NoStats]
    /\ down = {}
    /\ budget = [events |-> MaxEnvEvents, calls |-> MaxInvocations, overlap |-> FALSE]
    /\ proc = [p \in Procs |-> IdleProc]
    /\ last = NoOutcome
    /\ DetailIdle

NextBackfill ==
    \/ \E caller \in Callers, raw \in Cursors : GarminBackfill(caller, raw)
    \/ RestoreClient("backfill")
    \/ BackfillMark
    \/ BackfillPage
    \/ SaveStep("backfill")
    \/ BackfillReturnMore
    \/ BackfillStats
    \/ BackfillComplete
    \/ EnvEndpoint("activities")
    \/ \E u \in Users : EnvTamper(u)

SpecBackfill == InitBackfill /\ [][NextBackfill]_vars

\* ------------------------------------------------------------------------
\* Specification of backfill requests in day-window form: daysBack and
\* startOffset, no startPage
\* ------------------------------------------------------------------------
WindowRequests ==
    {[kind |-> "missing", value |-> 0, window |-> <<DaysBack, o>>] :
        o \in {0, ChunkDays, 2 * ChunkDays}}

InitWindow ==
    /\ listing \in {l \in [Users -> BackfillListings \cup SyncListings] :
                       /\ l["u1"] \in BackfillListings
                       /\ l["u1"].oversize = {}
                       /\ \A u \in Background : l[u] \in SyncListings /\ l[u].oversize = {}}
    /\ metricState = [m \in Metrics |-> "payload"]
    /\ cfg = [u \in Users |-> IF u = "u1" THEN ConfigAfterLogin(u, listing[u]) ELSE NoConfig]
    /\ dailies = [u \in Users |-> IF cfg[u].exists THEN DailiesAfterLogin ELSE NoDailies]
    /\ activities = [u \in Users |->
                       IF cfg[u].exists THEN ActivitiesAfterLogin(listing[u]) ELSE <<>>]
    /\ stats = [u \in Users |-> NoStats]
    /\ down = {}
    /\ budget = [events |-> 0, calls |-> MaxInvocations, overlap |-> FALSE]
    /\ proc = [p \in Procs |-> IdleProc]
    /\ last = NoOutcome
    /\ DetailIdle

NextWindow ==
    \/ \E caller \in Callers, raw \in WindowRequests : GarminBackfill(caller, raw)
    \/ RestoreClient("backfill")
    \/ BackfillMark
    \/ BackfillPage
    \/ SaveStep("backfill")
    \/ BackfillReturnMore
    \/ BackfillStats
    \/ BackfillComplete

SpecWindow == InitWindow /\ [][NextWindow]_vars

\* ------------------------------------------------------------------------
\* Specification of the per-metric writes of _do_sync: any set of metric
\* getters raises
\* ------------------------------------------------------------------------
InitDaily ==
    /\ listing = [u \in Users |->
                    [len |-> RECENT_LIMIT + 5, noid |-> {2}, unstageable |-> {3},
                     oversize |-> {}]]
    /\ metricState \in [Metrics -> {"payload", "down"}]
    /\ cfg = [u \in Users |-> IF u = "u1" THEN ConfigAfterLogin(u, listing[u]) ELSE NoConfig]
    /\ dailies = [u \in Users |-> IF u = "u1" THEN DailiesAfterLogin ELSE NoDailies]
    /\ activities = [u \in Users |->
                       IF u = "u1" THEN ActivitiesAfterLogin(listing[u]) ELSE <<>>]
    /\ stats = [u \in Users |-> NoStats]
    /\ down = {}
    /\ budget = [events |-> 0, calls |-> 0, overlap |-> FALSE]
    /\ proc = [p \in Procs |-> IdleProc]
    /\ last = NoOutcome
    /\ DetailIdle

NextDaily ==
    \/ \E caller \in Callers : GarminSyncOnDemand(caller)
    \/ GarminScheduledSync
    \/ SchedNext
    \/ \E p \in {"ondemand", "scheduled"} : RestoreClient(p)
    \/ \E p \in {"ondemand", "scheduled"} : DoSyncDay(p)
    \/ \E p \in {"ondemand", "scheduled"} : DoSyncActivities(p)
    \/ \E p \in {"ondemand", "scheduled"} : SaveStep(p)

SpecDaily == InitDaily /\ [][NextDaily]_vars

\* ------------------------------------------------------------------------
\* Specification of the per-field retry of _do_sync: payloads the store
\* rejects as sanitized, some of them also after the JSON round-trip
\* ------------------------------------------------------------------------
FaultyPayloads ==
    {f \in [Metrics -> {"payload", "exotic", "toxic"}] :
        Cardinality({m \in Metrics : f[m] # "payload"}) <= MaxFaults}

InitField ==
    /\ listing = [u \in Users |->
                    [len |-> RECENT_LIMIT + 5, noid |-> {2}, unstageable |-> {3},
                     oversize |-> {}]]
    /\ metricState \in FaultyPayloads
    /\ cfg = [u \in Users |-> IF u = "u1" THEN ConfigAfterLogin(u, listing[u]) ELSE NoConfig]
    /\ dailies = [u \in Users |-> IF u = "u1" THEN DailiesAfterLogin ELSE NoDailies]
    /\ activities = [u \in Users |->
                       IF u = "u1" THEN ActivitiesAfterLogin(listing[u]) ELSE <<>>]
    /\ stats = [u \in Users |-> NoStats]
    /\ down = {}
    /\ budget = [events |-> MaxEnvEvents, calls |-> 0, overlap |-> FALSE]
    /\ proc = [p \in Procs |-> IdleProc]
    /\ last = NoOutcome
    /\ DetailIdle

NextField ==
    \/ \E m \in Metrics, s \in {"payload", "exotic", "toxic"} : EnvMetric(m, s)
    \/ \E caller \in Callers : GarminSyncOnDemand(caller)
    \/ RestoreClient("ondemand")
    \/ DoSyncDay("ondemand")
    \/ DoSyncActivities("ondemand")
    \/ SaveStep("ondemand")

SpecField == InitField /\ [][NextField]_vars

\* ------------------------------------------------------------------------
\* Specification of _restore_client's display-name chain: every lookup
\* answers with a name, answers without one, or raises, and the name is
\* stored or not
\* ------------------------------------------------------------------------
LookupFaults ==
    {Lookups[i] : i \in DOMAIN Lookups} \cup {BlankOf[Lookups[i]] : i \in DOMAIN Lookups}

InitRestore ==
    /\ listing = [u \in Users |->
                    [len |-> RECENT_LIMIT + 5, noid |-> {2}, unstageable |-> {3},
                     oversize |-> {}]]
    /\ metricState = [m \in Metrics |-> "payload"]
    /\ \E stored \in {NoValue, "name"} :
         cfg = [u \in Users |->
                  IF u = "u1"
                  THEN [ConfigAfterLogin(u, listing[u]) EXCEPT !.displayName = stored]
                  ELSE NoConfig]
    /\ dailies = [u \in Users |-> IF u = "u1" THEN DailiesAfterLogin ELSE NoDailies]
    /\ activities = [u \in Users |->
                       IF u = "u1" THEN ActivitiesAfterLogin(listing[u]) ELSE <<>>]
    /\ stats = [u \in Users |-> NoStats]
    /\ down \in SUBSET LookupFaults
    /\ budget = [events |-> 0, calls |-> 0, overlap |-> FALSE]
    /\ proc = [p \in Procs |-> IdleProc]
    /\ last = NoOutcome
    /\ DetailIdle

NextRestore ==
    \/ \E caller \in Callers : GarminSyncOnDemand(caller)
    \/ RestoreClient("ondemand")
    \/ DoSyncDay("ondemand")
    \/ DoSyncActivities("ondemand")
    \/ SaveStep("ondemand")

SpecRestore == InitRestore /\ [][NextRestore]_vars

\* ------------------------------------------------------------------------
\* Specification of one user's lifecycle through every callable function
\* and the scheduled sync; the user's listing fits in one page, so that no
\* backfill invocation returns with hasMore
\* ------------------------------------------------------------------------
InitLifecycle ==
    /\ listing \in {l \in [Users -> SyncListings] :
                       \A u \in Background : l[u] \in SyncListings /\ l[u].oversize = {}}
    /\ metricState = [m \in Metrics |-> "payload"]
    /\ \E known \in BOOLEAN :
         cfg = [u \in Users |->
                  IF u = "u1" /\ known /\ LoginSyncOk(listing[u])
                  THEN ConfigAfterLogin(u, listing[u]) ELSE NoConfig]
    /\ dailies = [u \in Users |-> IF cfg[u].exists THEN DailiesAfterLogin ELSE NoDailies]
    /\ activities = [u \in Users |->
                       IF cfg[u].exists THEN ActivitiesAfterLogin(listing[u]) ELSE <<>>]
    /\ stats = [u \in Users |-> NoStats]
    /\ down = {}
    /\ budget = [events |-> 0, calls |-> MaxInvocations, overlap |-> FALSE]
    /\ proc = [p \in Procs |-> IdleProc]
    /\ last = NoOutcome
    /\ DetailIdle

NextLifecycle ==
    \/ \E caller \in Callers, creds \in Credentials : GarminLogin(caller, creds)
    \/ LoginComplete
    \/ \E caller \in Callers : GarminDisconnect(caller)
    \/ \E caller \in Callers : GarminSyncOnDemand(caller)
    \/ \E caller \in Callers : ComputeStatsOnDemand(caller)
    \/ GarminScheduledSync
    \/ SchedNext
    \/ \E caller \in Callers, raw \in Cursors : GarminBackfill(caller, raw)
    \/ \E p \in {"ondemand", "scheduled", "backfill"} : RestoreClient(p)
    \/ \E p \in {"login", "ondemand", "scheduled"} : DoSyncDay(p)
    \/ \E p \in {"login", "ondemand", "scheduled"} : DoSyncActivities(p)
    \/ \E p \in {"login", "ondemand", "scheduled", "backfill"} : SaveStep(p)
    \/ BackfillMark
    \/ BackfillPage
    \/ BackfillStats
    \/ BackfillComplete

SpecLifecycle == InitLifecycle /\ [][NextLifecycle]_vars

\* ------------------------------------------------------------------------
\* Specification of login and backfill invocations of one user that overlap
\* ------------------------------------------------------------------------
InitStatus ==
    /\ listing = [u \in Users |->
                    [len |-> PAGE_SIZE + ShortPage, noid |-> {2}, unstageable |-> {3},
                     oversize |-> {}]]
    /\ metricState = [m \in Metrics |-> "payload"]
    /\ cfg = [u \in Users |-> IF u = "u1" THEN ConfigAfterLogin(u, listing[u]) ELSE NoConfig]
    /\ dailies = [u \in Users |-> IF u = "u1" THEN DailiesAfterLogin ELSE NoDailies]
    /\ activities = [u \in Users |->
                       IF u = "u1" THEN ActivitiesAfterLogin(listing[u]) ELSE <<>>]
    /\ stats = [u \in Users |-> NoStats]
    /\ down = {}
    /\ budget = [events |-> 0, calls |-> MaxInvocations, overlap |-> TRUE]
    /\ proc = [p \in Procs |-> IdleProc]
    /\ last = NoOutcome
    /\ DetailIdle

NextStatus ==
    \/ \E creds \in Credentials : GarminLogin("u1", creds)
    \/ LoginComplete
    \/ \E raw \in Cursors : GarminBackfill("u1", raw)
    \/ RestoreClient("backfill")
    \/ DoSyncDay("login")
    \/ DoSyncActivities("login")
    \/ \E p \in {"login", "backfill"} : SaveStep(p)
    \/ BackfillMark
    \/ BackfillPage
    \/ BackfillStats
    \/ BackfillComplete

SpecStatus == InitStatus /\ [][NextStatus]_vars

\* ------------------------------------------------------------------------
\* Specification of a scheduled and an on-demand sync of one user that
\* overlap, against provider data that does not change
\* ------------------------------------------------------------------------
\* the daily records an earlier sync left, when every getter raised
StaleDailies == [d \in Dates |-> IF d < Today THEN [m \in Metrics |-> "empty"] ELSE NoDaily]

RaceListing ==
    [len |-> RECENT_LIMIT + 5, noid |-> {2}, unstageable |-> {3}, oversize |-> {}]

\* the activity records a backfill left
BackfilledActivities ==
    Upsert(<<>>, Staged(RaceListing, 1..RaceListing.len), "garmin_backfill")

RacePayloads ==
    {f \in [Metrics -> {"payload", "exotic", "toxic", "down"}] :
        Cardinality({m \in Metrics : f[m] # "payload"}) <= MaxFaults}

InitRace ==
    /\ listing = [u \in Users |-> RaceListing]
    /\ metricState \in RacePayloads
    /\ cfg = [u \in Users |-> IF u = "u1" THEN ConfigAfterLogin(u, listing[u]) ELSE NoConfig]
    /\ dailies = [u \in Users |-> IF u = "u1" THEN StaleDailies ELSE NoDailies]
    /\ activities = [u \in Users |-> IF u = "u1" THEN BackfilledActivities ELSE <<>>]
    /\ stats = [u \in Users |-> NoStats]
    /\ down = {}
    /\ budget = [events |-> 0, calls |-> 0, overlap |-> TRUE]
    /\ proc = [p \in Procs |-> IdleProc]
    /\ last = NoOutcome
    /\ DetailIdle

NextRace ==
    \/ GarminSyncOnDemand("u1")
    \/ GarminScheduledSync
    \/ SchedNext
    \/ \E p \in {"ondemand", "scheduled"} : RestoreClient(p)
    \/ \E p \in {"ondemand", "scheduled"} : DoSyncDay(p)
    \/ \E p \in {"ondemand", "scheduled"} : DoSyncActivities(p)
    \/ \E p \in {"ondemand", "scheduled"} : SaveStep(p)

SpecRace == InitRace /\ [][NextRace]_vars

\* ------------------------------------------------------------------------
\* Write batching: the loops of _do_sync, garmin_backfill (one page) and
\* _compute_all_stats that stage writes in a batch and commit it
\* ------------------------------------------------------------------------
WriteFns == {"_do_sync", "garmin_backfill", "_compute_all_stats"}

\* variant: the batch is committed once the counter is past the limit
FlushDueLate(count) == count > BATCH_LIMIT

\* "if write_count >= 450"
FlushDue(count) == count >= BATCH_LIMIT

\* batch.commit(); batch = db.batch(); count = 0
CommitBatch(b) ==
    [b EXCEPT !.commits = Append(@, b.pending), !.pending = {}, !.count = 0]

\* batch = db.batch(); write_count = 0
BatchBegin(fn) ==
    /\ batch.pc = "idle"
    /\ batch' = [NoBatch EXCEPT !.fn = fn, !.pc = "loop"]
    /\ UNCHANGED <<cfg, dailies, activities, stats, listing, metricState, down, budget,
                   proc, last, sanitizing, statToday, statLog, statDocs, statRuns>>

\* batch.set(ref, data, merge=True); count += 1; commit when the limit is
\* reached; the operations are numbered in the order they are staged
BatchStage ==
    /\ batch.pc = "loop"
    /\ batch.staged < MaxOps
    /\ LET b == [batch EXCEPT !.staged = @ + 1, !.count = @ + 1,
                              !.pending = @ \cup {batch.staged + 1}]
       IN batch' = IF FlushDue(b.count) THEN CommitBatch(b) ELSE b
    /\ UNCHANGED <<cfg, dailies, activities, stats, listing, metricState, down, budget,
                   proc, last, sanitizing, statToday, statLog, statDocs, statRuns>>

\* the end of the write sequence: "if write_count > 0: batch.commit()";
\* _compute_all_stats has written its weeks, its months and a year by then
BatchEnd ==
    /\ batch.pc = "loop"
    /\ batch.fn = "_compute_all_stats" => batch.staged >= WEEKS + MONTHS + 1
    /\ batch' = [(IF batch.count > 0 THEN CommitBatch(batch) ELSE batch) EXCEPT !.pc = "done"]
    /\ UNCHANGED <<cfg, dailies, activities, stats, listing, metricState, down, budget,
                   proc, last, sanitizing, statToday, statLog, statDocs, statRuns>>

\* the store, the provider and the invocations while a write sequence, a
\* sanitizer call or an aggregation run is looked at on its own
FlowsIdle ==
    /\ listing = [u \in Users |->
                    [len |-> 0, noid |-> {}, unstageable |-> {}, oversize |-> {}]]
    /\ metricState = [m \in Metrics |-> "payload"]
    /\ cfg = [u \in Users |-> NoConfig]
    /\ dailies = [u \in Users |-> NoDailies]
    /\ activities = [u \in Users |-> <<>>]
    /\ stats = [u \in Users |-> NoStats]
    /\ down = {}
    /\ budget = [events |-> 0, calls |-> 0, overlap |-> FALSE]
    /\ proc = [p \in Procs |-> IdleProc]
    /\ last = NoOutcome

InitBatch ==
    /\ FlowsIdle
    /\ batch = NoBatch
    /\ sanitizing = NoCall
    /\ statToday = 0
    /\ statLog = <<>>
    /\ statDocs = <<>>
    /\ statRuns = NoRuns

NextBatch ==
    \/ \E fn \in WriteFns : BatchBegin(fn)
    \/ BatchStage
    \/ BatchEnd

SpecBatch == InitBatch /\ [][NextBatch]_vars

\* ------------------------------------------------------------------------
\* _sanitize_for_firestore on structured data: scalars, lists and dicts
\* ------------------------------------------------------------------------
Scalar(t) == [t |-> t]
IntOf(v) == [t |-> "int", v |-> v]
List(items) == [t |-> "list", items |-> items]
Dict(fields) == [t |-> "dict", fields |-> fields]

\* f'[{len(v)} items omitted]'
Placeholder(n) == [t |-> "str", text |-> "items omitted", n |-> n]
\* str(data)[:200], str(data)[:500], bytes.decode(...)[:500], isoformat()
Text(kind) == [t |-> "str", text |-> kind]

\* variant: a sequence of exactly 100 elements is taken for oversized
TooLongInclusive(n) == n >= SEQ_LIMIT

\* "len(v) > 100"
TooLong(n) == n > SEQ_LIMIT

\* the branches for values that are neither dict nor list
SanitizeScalar(data) ==
    CASE data.t \in {"bool", "int", "float", "str", "none"} -> data
      [] data.t \in {"nan", "inf"} -> Scalar("none")
      [] data.t = "bytes" -> Text("decoded, 500 at most")
      [] data.t \in {"datetime", "date"} -> Text("isoformat")
      [] OTHER -> Text("str, 500 at most")

\* the branch "max_depth <= 0"
SanitizeAtDepthZero(data) ==
    CASE data.t \in {"str", "int", "bool", "none", "float"} -> data
      [] data.t \in {"nan", "inf"} -> Scalar("none")
      [] OTHER -> Text("str, 200 at most")

RECURSIVE SanitizeForFirestore(_, _)
SanitizeForFirestore(data, max_depth) ==
    IF max_depth <= 0 THEN SanitizeAtDepthZero(data)
    ELSE IF data.t = "dict" THEN
        Dict([k \in DOMAIN data.fields |->
                LET v == data.fields[k] IN
                IF v.t = "list" /\ TooLong(Len(v.items))
                THEN Placeholder(Len(v.items))
                ELSE SanitizeForFirestore(v, max_depth - 1)])
    ELSE IF data.t = "list" THEN
        IF TooLong(Len(data.items))
        THEN Placeholder(Len(data.items))
        ELSE List([i \in 1..Len(data.items) |->
                     SanitizeForFirestore(data.items[i], max_depth - 1)])
    ELSE SanitizeScalar(data)

\* the arguments of the calls: a leaf under up to MaxNest levels of lists
\* and dicts
Ints(n) == List([i \in 1..n |-> IntOf(i)])
Leaves ==
    {IntOf(7), Scalar("nan"), Scalar("bytes"), Scalar("datetime"),
     Ints(0), Ints(3), Ints(SEQ_LIMIT), Ints(SEQ_LIMIT + 1), Ints(LongLen),
     List(<<Scalar("inf"), Ints(LongLen), Scalar("object")>>)}

Shapes == UNION {[1..n -> {"list", "dict"}] : n \in 0..MaxNest}

RECURSIVE Nest(_, _)
Nest(shape, leaf) ==
    IF shape = <<>> THEN leaf
    ELSE IF Head(shape) = "list"
    THEN List(<<IntOf(0), Nest(Tail(shape), leaf)>>)
    ELSE Dict([k \in {"key", "other"} |->
                 IF k = "key" THEN Nest(Tail(shape), leaf) ELSE Scalar("nan")])

InitSanitize ==
    /\ FlowsIdle
    /\ batch = NoBatch
    /\ sanitizing \in {[data |-> Nest(shape, leaf), result |-> NoData, done |-> FALSE] :
                          shape \in Shapes, leaf \in Leaves}
    /\ statToday = 0
    /\ statLog = <<>>
    /\ statDocs = <<>>
    /\ statRuns = NoRuns

\* one call _sanitize_for_firestore(data) with the default max_depth
SanitizeCall ==
    /\ ~sanitizing.done
    /\ sanitizing' = [sanitizing EXCEPT
                         !.result = SanitizeForFirestore(sanitizing.data, MAX_DEPTH),
                         !.done = TRUE]
    /\ UNCHANGED <<cfg, dailies, activities, stats, listing, metricState, down, budget,
                   proc, last, batch, statToday, statLog, statDocs, statRuns>>

NextSanitize == SanitizeCall

SpecSanitize == InitSanitize /\ [][NextSanitize]_vars

\* ------------------------------------------------------------------------
\* Calendar: datetime.date as <<year, month, day>>, an ISO date string as
\* the same tuple (strings of one length compare as the tuples do)
\* ------------------------------------------------------------------------
Years == 2018..2026

IsLeap(y) == y % 4 = 0 /\ (y % 100 # 0 \/ y % 400 = 0)
DaysInMonth(y, m) ==
    IF m = 2 THEN (IF IsLeap(y) THEN 29 ELSE 28)
    ELSE IF m \in {4, 6, 9, 11} THEN 30 ELSE 31
DaysBeforeYear(y) == (y - 1) * 365 + (y - 1) \div 4 - (y - 1) \div 100 + (y - 1) \div 400
DaysBeforeMonth(y, m) ==
    <<0, 31, 59, 90, 120, 151, 181, 212, 243, 273, 304, 334>>[m]
        + (IF m > 2 /\ IsLeap(y) THEN 1 ELSE 0)

\* date.toordinal(), date.fromordinal(), date.weekday() (Monday is 0)
Ordinal(dt) == DaysBeforeYear(dt[1]) + DaysBeforeMonth(dt[1], dt[2]) + dt[3]
FromOrdinal(n) ==
    LET y == CHOOSE yy \in Years : DaysBeforeYear(yy) < n /\ n <= DaysBeforeYear(yy + 1)
        r == n - DaysBeforeYear(y)
        m == CHOOSE mm \in 1..12 :
                DaysBeforeMonth(y, mm) < r /\ r <= DaysBeforeMonth(y, mm) + DaysInMonth(y, mm)
    IN <<y, m, r - DaysBeforeMonth(y, m)>>
Weekday(dt) == (Ordinal(dt) + 6) % 7
\* date + timedelta(days=k)
AddDays(dt, k) == FromOrdinal(Ordinal(dt) + k)

\* s <= t on strings, a shorter string being smaller than its extensions
RECURSIVE StrLeq(_, _)
StrLeq(s, t) ==
    IF s = <<>> THEN TRUE
    ELSE IF t = <<>> THEN FALSE
    ELSE IF Head(s) # Head(t) THEN Head(s) < Head(t)
    ELSE StrLeq(Tail(s), Tail(t))

\* ------------------------------------------------------------------------
\* _compute_all_stats
\* ------------------------------------------------------------------------
\* dict.get(key, default); "value or 0" on a number that may be None (<<>>)
Get(d, key, default) == IF key \in DOMAIN d THEN d[key] ELSE default
OrZero(v) == IF v = <<>> THEN 0 ELSE v[1]

\* the query orders by startTimeLocal: a document without the field is not
\* in its result
Loaded(log) == {a \in DOMAIN log : "startTimeLocal" \in DOMAIN log[a]}

\* (a.get('startTimeLocal') or '')[:10] and the year of its first four
\* digits
DateOf(act) == Get(act, "startTimeLocal", <<>>)
YearsOf(act) == IF DateOf(act) = <<>> THEN {} ELSE {DateOf(act)[1]}

\* the type an activity is counted under
TypeOf(act) ==
    LET desc == Get(act, "activityType", [kind |-> "none"]) IN
    IF desc.kind = "dict"
    THEN (IF desc.typeKey = <<>> THEN "other" ELSE desc.typeKey[1])
    ELSE "other"

Duration(act) == OrZero(Get(act, "duration", Get(act, "movingDuration", <<0>>)))
Distance(act) == OrZero(Get(act, "distance", <<0>>))
Calories(act) == OrZero(Get(act, "calories", Get(act, "activeKilocalories", <<0>>)))

RECURSIVE SumDuration(_, _), SumDistance(_, _), SumCalories(_, _)
SumDuration(log, ids) ==
    IF ids = {} THEN 0
    ELSE LET a == CHOOSE x \in ids : TRUE IN Duration(log[a]) + SumDuration(log, ids \ {a})
SumDistance(log, ids) ==
    IF ids = {} THEN 0
    ELSE LET a == CHOOSE x \in ids : TRUE IN Distance(log[a]) + SumDistance(log, ids \ {a})
SumCalories(log, ids) ==
    IF ids = {} THEN 0
    ELSE LET a == CHOOSE x \in ids : TRUE IN Calories(log[a]) + SumCalories(log, ids \ {a})

\* _filter(start_date, end_date)
Filter(log, s, e) ==
    {a \in Loaded(log) : StrLeq(s, DateOf(log[a])) /\ StrLeq(DateOf(log[a]), e)}

\* _aggregate(activities)
Aggregate(log, ids) ==
    [activityCount |-> Cardinality(ids),
     totalDurationSeconds |-> SumDuration(log, ids),
     totalDistanceMeters |-> SumDistance(log, ids),
     totalCalories |-> SumCalories(log, ids),
     byType |-> [t \in {TypeOf(log[a]) : a \in ids} |->
                   LET of == {a \in ids : TypeOf(log[a]) = t} IN
                   [count |-> Cardinality(of), duration |-> SumDuration(log, of),
                    distance |-> SumDistance(log, of), calories |-> SumCalories(log, of)]]]

\* the data of one _write_stat call
StatData(log, kind, s, e, stamp) ==
    [periodType |-> kind, periodStart |-> s, periodEnd |-> e, computedAt |-> stamp]
        @@ Aggregate(log, Filter(log, s, e))

\* variant: weeks that start on the Sunday on or before today
WeekStartSunday(today, w) ==
    AddDays(AddDays(today, 0 - ((Weekday(today) + 1) % 7)), 0 - 7 * w)

\* the weekly family: doc_id week_{ws}
WeekStart(today, w) == AddDays(AddDays(today, 0 - Weekday(today)), 0 - 7 * w)
WeekDocs(log, today, stamp) ==
    [id \in {<<"week", WeekStart(today, w)>> : w \in 0..(WEEKS - 1)} |->
        StatData(log, "week", id[2], AddDays(id[2], 6), stamp)]

\* "while mo <= 0: mo += 12; yr -= 1"
RECURSIVE Rollover(_, _)
Rollover(yr, mo) == IF mo <= 0 THEN Rollover(yr - 1, mo + 12) ELSE <<yr, mo>>
MonthOf(today, m) == Rollover(today[1], today[2] - m)

\* the monthly family: doc_id month_{ms}
MonthEnd(yr, mo) ==
    IF mo = 12 THEN AddDays(<<yr + 1, 1, 1>>, 0 - 1) ELSE AddDays(<<yr, mo + 1, 1>>, 0 - 1)
MonthDocs(log, today, stamp) ==
    [id \in {<<"month", <<MonthOf(today, m)[1], MonthOf(today, m)[2], 1>>>> :
                m \in 0..(MONTHS - 1)} |->
        StatData(log, "month", id[2], MonthEnd(id[2][1], id[2][2]), stamp)]

\* the yearly family: doc_id year_{y}
StatYears(log, today) == {today[1]} \cup UNION {YearsOf(log[a]) : a \in Loaded(log)}
YearDocs(log, today, stamp) ==
    [id \in {<<"year", <<y, 1, 1>>>> : y \in StatYears(log, today)} |->
        StatData(log, "year", id[2], <<id[2][1], 12, 31>>, stamp)]

\* every _write_stat call of a run: doc_id -> data
Rollups(log, today, stamp) ==
    WeekDocs(log, today, stamp) @@ MonthDocs(log, today, stamp) @@ YearDocs(log, today, stamp)

\* a type key that is not a string cannot be a field path: batch.set raises
WriteRaises(docs) == \E id \in DOMAIN docs : NoValue \in DOMAIN docs[id].byType

\* variant: a merge that adds the counters of the stored document
MergeStatAdding(old, new) ==
    [new EXCEPT !.activityCount = @ + old.activityCount]

\* batch.set(ref, data, merge=True) on a stored document: every leaf of the
\* data is set; a type of the stored byType map that the data does not name
\* stays, unless the data's byType is the empty map
MergeStat(old, new) ==
    IF DOMAIN new.byType = {} THEN new
    ELSE [new EXCEPT !.byType =
            [t \in DOMAIN old.byType \cup DOMAIN new.byType |->
                IF t \in DOMAIN new.byType THEN new.byType[t]
                ELSE old.byType[t]]]

\* the stored documents after the batch of a run is committed
WriteStats(stored, docs) ==
    [id \in DOMAIN stored \cup DOMAIN docs |->
        IF id \notin DOMAIN docs THEN stored[id]
        ELSE IF id \notin DOMAIN stored THEN docs[id]
        ELSE MergeStat(stored[id], docs[id])]

\* one run of _compute_all_stats for the user
ComputeAllStatsRun ==
    /\ statRuns.sinceChange < 2
    /\ \E docs \in {Rollups(statLog, statToday, statRuns.total + 1)} :
       IF WriteRaises(docs)
       THEN /\ statDocs' = statDocs
            /\ statRuns' = [total |-> statRuns.total + 1,
                            sinceChange |-> statRuns.sinceChange + 1,
                            written |-> {}, raised |-> TRUE]
       ELSE /\ statDocs' = WriteStats(statDocs, docs)
            /\ statRuns' = [total |-> statRuns.total + 1,
                            sinceChange |-> statRuns.sinceChange + 1,
                            written |-> DOMAIN docs, raised |-> FALSE]
    /\ UNCHANGED <<cfg, dailies, activities, stats, listing, metricState, down, budget,
                   proc, last, batch, sanitizing, statToday, statLog>>

\* a sync upserts an activity whose type was changed at the provider
Retype(a) ==
    /\ statRuns.sinceChange > 0
    /\ a \in DOMAIN statLog
    /\ TypeOf(statLog[a]) = "running"
    /\ statLog' = [statLog EXCEPT ![a].activityType = [kind |-> "dict", typeKey |-> <<"cycling">>]]
    /\ statRuns' = [statRuns EXCEPT !.sinceChange = 0]
    /\ UNCHANGED <<cfg, dailies, activities, stats, listing, metricState, down, budget,
                   proc, last, batch, sanitizing, statToday, statDocs>>

\* the activity documents the logs are drawn from
ActivityPool ==
    <<[startTimeLocal |-> <<2023, 12, 31>>,
       activityType |-> [kind |-> "dict", typeKey |-> <<"running">>],
       duration |-> <<30>>, distance |-> <<5>>, calories |-> <<300>>],
      [startTimeLocal |-> <<2024, 1, 1>>,
       activityType |-> [kind |-> "dict", typeKey |-> <<"running">>],
       duration |-> <<>>, movingDuration |-> <<20>>, distance |-> <<3>>,
       activeKilocalories |-> <<100>>],
      [startTimeLocal |-> <<2023, 12, 31>>,
       activityType |-> [kind |-> "dict", typeKey |-> <<"cycling">>],
       movingDuration |-> <<60>>, distance |-> <<>>, calories |-> <<>>,
       activeKilocalories |-> <<50>>],
      [startTimeLocal |-> <<2024, 2, 29>>,
       activityType |-> [kind |-> "dict", typeKey |-> <<>>],
       duration |-> <<10>>, distance |-> <<1>>, calories |-> <<10>>],
      [startTimeLocal |-> <<2022, 1, 31>>,
       activityType |-> [kind |-> "text"],
       duration |-> <<40>>, distance |-> <<8>>, calories |-> <<400>>],
      [startTimeLocal |-> <<2019, 7, 4>>,
       duration |-> <<15>>, distance |-> <<2>>],
      [startTimeLocal |-> <<>>,
       activityType |-> [kind |-> "dict", typeKey |-> <<"running">>],
       duration |-> <<5>>, distance |-> <<1>>, calories |-> <<50>>],
      [activityType |-> [kind |-> "dict", typeKey |-> <<"running">>],
       duration |-> <<5>>, distance |-> <<1>>, calories |-> <<50>>],
      [startTimeLocal |-> <<2024, 1, 1>>,
       activityType |-> [kind |-> "dict", typeKey |-> <<NoValue>>],
       duration |-> <<25>>, distance |-> <<4>>, calories |-> <<200>>]>>

Logs ==
    {[a \in ids |-> ActivityPool[a]] :
        ids \in {x \in SUBSET DOMAIN ActivityPool : Cardinality(x) <= MaxLog}}

\* date.today() is drawn from the days after a year's end and after a leap
\* year's February
FirstDays == {<<2023, 12, 28>>, <<2024, 2, 26>>}

InitStats ==
    /\ FlowsIdle
    /\ batch = NoBatch
    /\ sanitizing = NoCall
    /\ statToday \in {AddDays(f, k) : f \in FirstDays, k \in 0..(MaxDays - 1)}
    /\ statLog \in Logs
    /\ statDocs = <<>>
    /\ statRuns = NoRuns

NextStats ==
    \/ ComputeAllStatsRun
    \/ \E a \in DOMAIN ActivityPool : Retype(a)

SpecStats == InitStats /\ [][NextStats]_vars

\* ------------------------------------------------------------------------
\* Claims
\* ------------------------------------------------------------------------
SyncFlows == {"ondemand", "scheduled", "login"}
FlowEnded(p) == last.p = p /\ last.status \in {"ok", "error"}
BackfillReturned == last.p = "backfill" /\ last.status = "ok"
Backfills == {proc["backfill"]} \cup (IF last.p = "backfill" THEN {last.run} ELSE {})
Full(f, k) == \A i \in 1..k : f[i][2] = PAGE_SIZE

\* C1: in every sync flow (on-demand, each user of the scheduled sync, the
\* initial sync of a login) that obtained a session, _save_session has run
\* when the flow ends for that user, also when _do_sync raised part-way.
C1_SessionSavedWhenSyncFlowEnds ==
    \A p \in SyncFlows : (FlowEnded(p) /\ last.run.restored) => last.run.saved

\* C2: every garmin_backfill invocation that restored a session has run
\* _save_session when it ends, whether it returns hasMore, completes, or a
\* page write failed.
C2_SessionSavedWhenBackfillEnds ==
    (FlowEnded("backfill") /\ last.run.restored) => last.run.saved

\* C3: when garmin_scheduled_sync ends, the loop has been through every user
\* that was connected at its start, whichever of them failed; the step that
\* completes a user's sequence leaves today's record written and the
\* session saved; and the scheduled sync changes a stored session in no
\* other step, so a user whose sequence failed keeps the stored session.
ScheduledStep == proc'["scheduled"] # proc["scheduled"]
C3_ScheduledSyncIsolatesUsers ==
    /\ []((last.p = "scheduled" /\ last.status = "done") =>
            \A u \in Users : last.run.log[u] # "pending")
    /\ [][ScheduledStep =>
            \A u \in Users :
               LET done == /\ proc["scheduled"].log[u] = "pending"
                           /\ proc'["scheduled"].log[u] = "ok"
               IN /\ done =>
                       /\ \A m \in Metrics : dailies'[u][Today][m] # "absent"
                       /\ cfg'[u].garthSession.present
                       /\ cfg'[u].garthSession.pt.owner = u
                       /\ cfg'[u].lastSyncAt = "set"
                  /\ cfg'[u].garthSession # cfg[u].garthSession => done]_vars

C3_Witness ==
    /\ last.p = "scheduled"
    /\ last.status = "done"
    /\ last.run.log = [u \in Users |-> IF u = "u2" THEN "failed" ELSE "ok"]

\* C4: once _do_sync is through a date, every metric whose getter did not
\* raise is stored in that date's record, whatever set of the other getters
\* raised, and the day loop goes through every date of the window.
C4_MetricWritesIndependent ==
    \A p \in {"ondemand", "scheduled"} :
        proc[p].pc \in {"sync_day", "sync_acts", "save"} =>
            /\ proc[p].pc # "sync_day" => proc[p].i = proc[p].days
            /\ \A k \in 0..(proc[p].i - 1), m \in Metrics :
                 metricState[m] # "down" =>
                     dailies[proc[p].uid][Today - k][m] = Sanitize(metricState[m])

C4_Witness ==
    /\ proc["ondemand"].pc = "sync_acts"
    /\ \A m \in Metrics : metricState[m] = "down" <=> m = "hrv"
    /\ dailies["u1"][Today]["hrv"] = "empty"
    /\ \A m \in Metrics \ {"hrv"} : dailies["u1"][Today][m] = "san"

\* C5: in an invocation of garmin_backfill no page is fetched after a page of
\* fewer than 100 activities; an invocation that returns hasMore=false has
\* no nextPage and ran the stats aggregation exactly once; one that returns
\* hasMore=true never ran it; after a short page the return is hasMore=false.
C5_ShortPageEndsBackfill ==
    /\ \A pr \in Backfills :
         /\ Full(pr.fetched, Len(pr.fetched) - 1)
         /\ pr.statsCalls <= 1
    /\ BackfillReturned =>
         /\ ~last.hasMore => last.nextPage = <<>> /\ last.run.statsCalls = 1
         /\ last.hasMore => last.run.statsCalls = 0
         /\ ~Full(last.run.fetched, Len(last.run.fetched)) => ~last.hasMore

C5_Witness ==
    /\ BackfillReturned
    /\ last.run.fetched = <<<<0, PAGE_SIZE>>, <<1, PAGE_SIZE>>, <<2, ShortPage>>>>
    /\ ~last.hasMore
    /\ last.run.statsCalls = 1

\* C6: an invocation with cursor startPage fetches the pages startPage,
\* startPage + 1, ... in this order and at most 50 of them; it returns
\* hasMore=true exactly when it fetched 50 full pages, and then nextPage is
\* startPage + 50; with hasMore=false there is no nextPage.
C6_PageBudget ==
    /\ \A pr \in Backfills :
         /\ Len(pr.fetched) <= MAX_PAGES_PER_CALL
         /\ \A i \in 1..Len(pr.fetched) : pr.fetched[i][1] = pr.start + i - 1
    /\ BackfillReturned =>
         /\ last.hasMore <=> /\ Len(last.run.fetched) = MAX_PAGES_PER_CALL
                             /\ Full(last.run.fetched, MAX_PAGES_PER_CALL)
         /\ last.hasMore => last.nextPage = <<last.run.start + MAX_PAGES_PER_CALL>>
         /\ ~last.hasMore => last.nextPage = <<>>

C6_Witness ==
    /\ BackfillReturned
    /\ last.run.start = 1
    /\ last.hasMore
    /\ last.nextPage = <<MAX_PAGES_PER_CALL + 1>>

\* C7: a chain of invocations that starts with startPage=0 and goes on with
\* the nextPage it was given requests consecutive pages, hands over the page
\* after the last one it fetched, and when it returns hasMore=false every
\* listed activity that carries an id and can be written is stored.
C7_ChainIsExhaustive ==
    (BackfillReturned /\ last.run.inChain) =>
        /\ \A i \in 1..Len(last.run.fetched) :
             last.run.fetched[i][1] = last.run.start + i - 1
        /\ last.hasMore => last.nextPage = <<last.run.start + Len(last.run.fetched)>>
        /\ ~last.hasMore =>
             Staged(listing[last.run.uid], 1..listing[last.run.uid].len)
                 \subseteq DOMAIN activities[last.run.uid]

\* C8: an invocation marks the backfill complete only when the pages it was
\* given reach the end of the provider's listing.
C8_CompleteOnlyAtEndOfListing ==
    (BackfillReturned /\ ~last.hasMore) =>
        LET f == last.run.fetched
            lastPage == f[Len(f)]
        IN listing[last.run.uid].len <= lastPage[1] * PAGE_SIZE + lastPage[2]

\* C9: an invocation that repeats the cursor of the invocation before it,
\* against the same listing, leaves every ActivityRecord as it was and
\* returns the same hasMore and nextPage.
C9_ReinvocationIdempotent ==
    /\ [][proc["backfill"].replay => activities' = activities]_vars
    /\ [](BackfillReturned /\ last.run.replay /\ ~last.run.listFailed =>
            /\ last.hasMore = last.run.prevHasMore
            /\ last.nextPage = last.run.prevNextPage)

C9_Witness ==
    /\ BackfillReturned
    /\ last.run.replay
    /\ ~last.run.listFailed
    /\ Len(last.run.fetched) = 3

\* C10: the stored backfillProgress of every user is an integer in 0..100.
C10_ProgressIsPercentage ==
    \A u \in Users :
        \A i \in DOMAIN cfg[u].backfillProgress :
            cfg[u].backfillProgress[i] \in 0..COMPLETE_PROGRESS

Round(num, den) == (2 * num + den) \div (2 * den)
C12_DayWindowMode ==
    (BackfillReturned /\ last.run.window # <<>>) =>
        LET daysBack == last.run.window[1]
            processedEnd == Min(last.run.window[2] + ChunkDays, daysBack)
            c == cfg[last.run.uid]
        IN IF processedEnd < daysBack
           THEN /\ last.hasMore
                /\ c.backfillProgress = <<Min(95, Round(processedEnd * 100, daysBack))>>
           ELSE /\ ~last.hasMore
                /\ c.backfillStatus = "complete"
                /\ c.backfillProgress = <<COMPLETE_PROGRESS>>
Restorers == {"ondemand", "scheduled", "backfill"}
RestoreStep(p) == proc[p].pc = "restore" /\ proc'[p].pc # "restore"
NotConnected(c) == ~c.exists \/ ~c.connected \/ ~c.garthSession.present
Callables == {"login", "disconnect", "ondemand", "backfill", "stats"}
StoreUnchanged == UNCHANGED <<cfg, dailies, activities, stats>>

\* C13: _restore_client for a user that is not connected or has no stored
\* session, a user without any stored config included, fails with
\* FAILED_PRECONDITION, without decrypting and without writing.
C13_NotConnectedError ==
    [][\A p \in Restorers :
         (RestoreStep(p) /\ NotConnected(cfg[proc[p].uid])) =>
             /\ last'.p = p
             /\ last'.status = "error"
             /\ last'.code = "FAILED_PRECONDITION"
             /\ ~last'.run.restored
             /\ StoreUnchanged]_vars

\* C14: a garmin_disconnect that returns sets connected=false, removes the
\* session and the account email, stamps disconnectedAt and changes nothing
\* else; and for a user who disconnected and for whom no login returned
\* success since (here: no login of the user ever returns success), every
\* _restore_client fails with FAILED_PRECONDITION.
C14_DisconnectFrame ==
    [][/\ (last' # last /\ last'.p = "disconnect" /\ last'.status = "ok") =>
            /\ cfg' = [cfg EXCEPT ![last'.run.uid].connected = FALSE,
                                  ![last'.run.uid].garthSession = NoBlob,
                                  ![last'.run.uid].garminEmail = FALSE,
                                  ![last'.run.uid].disconnectedAt = "set"]
            /\ UNCHANGED <<dailies, activities, stats>>
       /\ \A p \in Restorers :
            (/\ RestoreStep(p)
             /\ cfg[proc[p].uid].disconnectedAt = "set"
             /\ ~LoginSyncOk(listing[proc[p].uid])) =>
                /\ last'.p = p
                /\ last'.code = "FAILED_PRECONDITION"]_vars

\* C15: a user who is disconnected (connected=false in an existing config)
\* has no encrypted session stored.
C15_NoSessionAfterDisconnect ==
    \A u \in Users :
        (cfg[u].exists /\ ~cfg[u].connected) => ~cfg[u].garthSession.present

\* C16: a user whose config has connected=true has an encrypted session
\* stored.
C16_ConnectedHasSession ==
    \A u \in Users : cfg[u].connected => cfg[u].garthSession.present

C16_Witness ==
    /\ cfg["u1"].connected
    /\ cfg["u1"].garthSession.present
    /\ cfg["u1"].disconnectedAt = "set"
    /\ cfg["u1"].lastSyncAt = "set"

\* C18: no callable function runs for an anonymous caller: such a call ends
\* with UNAUTHENTICATED and leaves the store as it was; a login without
\* email or password ends with INVALID_ARGUMENT and leaves the store as it
\* was.
C18_AuthBeforeEffects ==
    /\ [](\A p \in Callables : proc[p].pc # "idle" => proc[p].uid \in Users)
    /\ []((last.p \in Callables /\ last.status = "ok") => last.run.uid \in Users)
    /\ [][(last' # last /\ last'.p \in Callables) =>
            /\ last'.run.uid = NoAuth =>
                 /\ last'.status = "error"
                 /\ last'.code = "UNAUTHENTICATED"
                 /\ StoreUnchanged
            /\ (last'.p = "login" /\ last'.run.uid \in Users
                  /\ last'.run.creds = "missing") =>
                 /\ last'.status = "error"
                 /\ last'.code = "INVALID_ARGUMENT"
                 /\ StoreUnchanged]_vars

C18_Witness ==
    /\ last.p = "backfill"
    /\ last.run.uid = NoAuth
    /\ last.code = "UNAUTHENTICATED"
    /\ cfg["u1"].connected
\* C17: a _restore_client that gets past the session checks succeeds
\* whatever the lookups do. With a stored display name it makes no lookup
\* and writes nothing; without one it calls the lookups in order up to the
\* first that answers with a name, a raising lookup counting as no answer,
\* and writes that name to the config; when none answers it writes nothing.
C17_DisplayNameFallback ==
    [][\A p \in Restorers :
         LET u == proc[p].uid
             c == cfg[u]
             first == {i \in DOMAIN Lookups :
                         /\ Named(Lookups[i])
                         /\ \A j \in 1..(i - 1) : ~Named(Lookups[j])}
         IN
         (RestoreStep(p) /\ ~NotConnected(c) /\ DecryptOk(c.garthSession)) =>
             /\ proc'[p].restored
             /\ IF c.displayName # NoValue
                THEN proc'[p].lookups = <<>> /\ cfg' = cfg
                ELSE IF first = {}
                THEN proc'[p].lookups = Lookups /\ cfg' = cfg
                ELSE \A i \in first :
                       /\ proc'[p].lookups = SubSeq(Lookups, 1, i)
                       /\ cfg' = [cfg EXCEPT ![u].displayName = NameOf[Lookups[i]]]]_vars

C17_Witness ==
    /\ proc["ondemand"].restored
    /\ proc["ondemand"].lookups = <<"full_name", "garth_profile", "social_profile">>
    /\ "full_name" \in down
    /\ BlankOf["garth_profile"] \in down
    /\ cfg["u1"].displayName = NameOf["social_profile"]
WindowOf == [login |-> LOGIN_DAYS, ondemand |-> ONDEMAND_DAYS, scheduled |-> SCHEDULED_DAYS]
Recent(u) == 1..Min(RECENT_LIMIT, listing[u].len)

C20_FieldRetry ==
    [][\A p \in SyncFlows :
         LET pr == proc[p]
             u == pr.uid
             d == Today - pr.i
         IN
         (pr.pc = "sync_day" /\ proc'[p] # pr) =>
             /\ proc'[p].pc \in {"sync_day", "sync_acts"}
             /\ \A m \in Metrics :
                  dailies'[u][d][m] =
                    CASE metricState[m] = "payload" -> "san"
                      [] metricState[m] = "exotic" -> "san_json"
                      [] metricState[m] = "toxic" -> dailies[u][d][m]
                      [] metricState[m] = "down" -> "empty"]_vars

C20_Witness ==
    /\ last.p = "ondemand"
    /\ last.status = "ok"
    /\ metricState["hrv"] = "exotic"
    /\ metricState["sleep"] = "toxic"
    /\ dailies["u1"][Today]["hrv"] = "san_json"
    /\ dailies["u1"][Today]["sleep"] = "absent"
    /\ dailies["u1"][Today - 1]["sleep"] = "san"
    /\ \A m \in Metrics \ {"hrv", "sleep"} : dailies["u1"][Today][m] = "san"

\* C26: the session _save_session stores for a user is the one that was
\* restored or logged in for that user: at every _save_session call the
\* shared garth.client holds a session of the user it is called for, and
\* every stored session belongs to the user it is stored under; in the
\* scheduled sync a failed restore is not followed by a save.
C26_NoSessionLeak ==
    /\ \A p \in Procs :
         proc[p].pc = "save" =>
            /\ proc[p].restored
            /\ proc[p].client.owner = proc[p].uid
    /\ \A u \in Users :
         cfg[u].garthSession.present => cfg[u].garthSession.pt.owner = u

C26_Witness ==
    /\ proc["scheduled"].pc = "sched_next"
    /\ proc["scheduled"].uid = "u3"
    /\ proc["scheduled"].log["u2"] = "ok"
    /\ proc["scheduled"].log["u3"] = "failed"
    /\ proc["scheduled"].client.owner = "u2"
    /\ cfg["u3"].garthSession.pt.owner = "u3"

\* C27: a garmin_login that returns an error has written nothing to the
\* user's config: the error is returned before the first write of the
\* login, and never by a login that has already marked the user connected
\* with backfillStatus 'syncing'.
C27_FailedLoginWritesNothing ==
    [][(last' # last /\ last'.p = "login" /\ last'.status = "error") =>
          /\ proc["login"].pc = "idle"
          /\ cfg' = cfg]_vars

\* C28: whatever way login and backfill invocations of a user interleave,
\* a config with backfillStatus 'complete' has backfillProgress 100; a
\* backfill invocation writes backfillStatus 'syncing' before it fetches its
\* first page; and the status turns to 'complete' only in the step in which
\* a backfill invocation of the user returns hasMore=false or a login of the
\* user returns success.
C28_CompleteMeansHundred ==
    /\ [](\A u \in Users :
            cfg[u].backfillStatus = "complete" =>
               cfg[u].backfillProgress = <<COMPLETE_PROGRESS>>)
    /\ [][/\ (proc["backfill"].pc = "bf_mark" /\ proc'["backfill"] # proc["backfill"]) =>
               /\ cfg'[proc["backfill"].uid].backfillStatus = "syncing"
               /\ proc'["backfill"].pc = "bf_loop"
               /\ proc'["backfill"].fetched = <<>>
          /\ Len(proc'["backfill"].fetched) > Len(proc["backfill"].fetched) =>
               proc["backfill"].pc = "bf_loop"
          /\ \A u \in Users :
               (cfg'[u].backfillStatus = "complete" /\ cfg[u].backfillStatus # "complete") =>
                  /\ last'.p \in {"login", "backfill"}
                  /\ proc[last'.p].pc # "idle"
                  /\ proc'[last'.p].pc = "idle"
                  /\ last'.status = "ok"
                  /\ last'.run.uid = u
                  /\ last'.p = "backfill" => ~last'.hasMore]_vars

C28_Witness ==
    /\ proc["backfill"].pc = "bf_loop"
    /\ proc["backfill"].page = 1
    /\ cfg["u1"].backfillStatus = "complete"
    /\ last.p = "login"
    /\ last.status = "ok"

\* C29: a day step of _do_sync writes each of the nine metric fields of its
\* date; a metric whose getter raised is written with the empty default,
\* also over a payload that an earlier sync stored for that date.
C29_FailedFetchWritesEmpty ==
    [][\A p \in SyncFlows :
         LET pr == proc[p]
             u == pr.uid
             d == Today - pr.i
         IN
         (pr.pc = "sync_day" /\ proc'[p] # pr) =>
             \A m \in Metrics :
                /\ dailies'[u][d][m] # "absent"
                /\ metricState[m] = "down" => dailies'[u][d][m] = "empty"]_vars

C29_Witness ==
    /\ last.p = "ondemand"
    /\ last.status = "ok"
    /\ metricState["sleep"] = "down"
    /\ dailies["u1"][Today - 1]["sleep"] = "empty"
    /\ dailies["u1"][Today - 2]["sleep"] = "san"
    /\ dailies["u1"][Today - 1]["stats"] = "san"

\* the records of a user after a sync of the given window ran alone on the
\* store the behaviour starts with
DailiesAfterSync(days) ==
    [d \in Dates |-> IF d > Today - days THEN WriteDay(StaleDailies[d]) ELSE StaleDailies[d]]
ActivitiesAfterSync ==
    Upsert(BackfilledActivities,
           Staged(RaceListing, ListActivities(RaceListing, 0, RECENT_LIMIT)), "garmin_pull")

\* C25: a scheduled and an on-demand sync of one user that interleave leave
\* the records that the two syncs leave when they run one after the other:
\* when the on-demand sync returns, and from then on, the DailyRecords and
\* ActivityRecords are those after an on-demand sync; when the scheduled
\* sync is through the user, the record of today and the ActivityRecords are
\* those after a scheduled sync; and at every moment each record is either
\* as it was before or as it is after the syncs.
C25_BenignRace ==
    /\ [](\A d \in Dates :
            dailies["u1"][d] \in {StaleDailies[d], DailiesAfterSync(ONDEMAND_DAYS)[d]})
    /\ [](activities["u1"] \in {BackfilledActivities, ActivitiesAfterSync})
    /\ []((last.p = "ondemand" /\ last.status = "ok") =>
            /\ dailies["u1"] = DailiesAfterSync(ONDEMAND_DAYS)
            /\ activities["u1"] = ActivitiesAfterSync)
    /\ []((last.p = "scheduled" /\ last.status \in {"ok", "done"}) =>
            /\ dailies["u1"][Today] = DailiesAfterSync(SCHEDULED_DAYS)[Today]
            /\ activities["u1"] = ActivitiesAfterSync)
    /\ [][(dailies["u1"] = DailiesAfterSync(ONDEMAND_DAYS) => dailies' = dailies)
          /\ (activities["u1"] = ActivitiesAfterSync => activities' = activities)]_vars

C25_Witness ==
    /\ proc["scheduled"].pc = "save"
    /\ proc["ondemand"].pc = "sync_day"
    /\ proc["ondemand"].i = 1
    /\ metricState["hrv"] = "toxic"
    /\ metricState["sleep"] = "down"
    /\ dailies["u1"][Today]["stats"] = "san"
    /\ dailies["u1"][Today - 1]["stats"] = "empty"

\* the commits that hold an operation
CommitsOf(op) == {k \in DOMAIN batch.commits : op \in batch.commits[k]}

RECURSIVE LongestSeq(_)
LongestSeq(v) ==
    IF v.t = "list"
    THEN LET inner == {LongestSeq(v.items[i]) : i \in 1..Len(v.items)} \cup {Len(v.items)}
         IN CHOOSE n \in inner : \A k \in inner : k <= n
    ELSE IF v.t = "dict"
    THEN LET inner == {LongestSeq(v.fields[k]) : k \in DOMAIN v.fields} \cup {0}
         IN CHOOSE n \in inner : \A k \in inner : k <= n
    ELSE 0

RECURSIVE Nesting(_)
Nesting(v) ==
    LET inner == IF v.t = "list" THEN {Nesting(v.items[i]) : i \in 1..Len(v.items)}
                 ELSE IF v.t = "dict" THEN {Nesting(v.fields[k]) : k \in DOMAIN v.fields}
                 ELSE {}
    IN IF v.t \notin {"list", "dict"} THEN 0
       ELSE 1 + (IF inner = {} THEN 0 ELSE CHOOSE n \in inner : \A k \in inner : k <= n)

\* the sequences of the argument against the result, down to the given
\* number of levels: an oversized sequence against a placeholder with its
\* length, another sequence against a sequence of the same length whose
\* elements correspond in order
RECURSIVE SequencesKept(_, _, _)
SequencesKept(in, out, levels) ==
    IF levels <= 0 THEN TRUE
    ELSE IF in.t = "list" THEN
        IF Len(in.items) > SEQ_LIMIT
        THEN out = Placeholder(Len(in.items))
        ELSE /\ out.t = "list"
             /\ Len(out.items) = Len(in.items)
             /\ \A i \in 1..Len(in.items) :
                  /\ in.items[i].t = "int" => out.items[i] = in.items[i]
                  /\ SequencesKept(in.items[i], out.items[i], levels - 1)
    ELSE IF in.t = "dict" THEN
        /\ out.t = "dict"
        /\ DOMAIN out.fields = DOMAIN in.fields
        /\ \A k \in DOMAIN in.fields :
             IF in.fields[k].t = "list" /\ Len(in.fields[k].items) > SEQ_LIMIT
             THEN out.fields[k] = Placeholder(Len(in.fields[k].items))
             ELSE SequencesKept(in.fields[k], out.fields[k], levels - 1)
    ELSE TRUE

WrittenOf(kind) == {statDocs[id] : id \in {x \in statRuns.written : x[1] = kind}}
RunReturned == statRuns.total > 0 /\ ~statRuns.raised
MonthIndex(dt) == dt[1] * 12 + dt[2]
DatedYears == {statLog[a].startTimeLocal[1] :
                 a \in {x \in Loaded(statLog) : statLog[x].startTimeLocal # <<>>}}

\* C23: a run of _compute_all_stats that returns has written exactly 52 week
\* documents whose periods start on a Monday, last seven days, are disjoint
\* and contiguous and end with the week of today; exactly 24 month documents
\* for the 24 consecutive months ending with today's month, each from the
\* first of a valid month to the day before the first of the next month; and
\* exactly one year document for today's year and for every year that begins
\* the date of an activity.
C23_PeriodsWritten ==
    RunReturned =>
        \A weeks \in {{<<Ordinal(d.periodStart), Ordinal(d.periodEnd)>> : d \in WrittenOf("week")}} :
        \A months \in {WrittenOf("month")} :
        \A years \in {WrittenOf("year")} :
        \A now \in {Ordinal(statToday)} :
        /\ Cardinality(statRuns.written) = WEEKS + MONTHS + Cardinality(DatedYears \cup {statToday[1]})
        /\ Cardinality(weeks) = WEEKS
        /\ \A d \in weeks :
            /\ (d[1] + 6) % 7 = 0
            /\ d[2] = d[1] + 6
            /\ d[1] <= now
            /\ now <= d[2] \/ \E e \in weeks : e[1] = d[2] + 1
            /\ \A e \in weeks : e # d => e[2] < d[1] \/ d[2] < e[1]
        /\ Cardinality(months) = MONTHS
        /\ {MonthIndex(d.periodStart) : d \in months}
              = {MonthIndex(statToday) - k : k \in 0..(MONTHS - 1)}
        /\ \A d \in months :
            /\ d.periodStart[2] \in 1..12
            /\ d.periodStart[3] = 1
            /\ d.periodEnd = <<d.periodStart[1], d.periodStart[2],
                               DaysInMonth(d.periodStart[1], d.periodStart[2])>>
        /\ {d.periodStart[1] : d \in years} = DatedYears \cup {statToday[1]}
        /\ Cardinality(years) = Cardinality(DatedYears \cup {statToday[1]})
        /\ \A d \in years :
              d.periodStart = <<d.periodStart[1], 1, 1>> /\ d.periodEnd = <<d.periodStart[1], 12, 31>>

\* a run in January over a log with an activity of an earlier year
C23_Witness ==
    /\ RunReturned
    /\ statToday[2] = 1
    /\ \E y \in DatedYears : y < statToday[1] - 2
    /\ \E d \in WrittenOf("month") : d.periodStart[1] = statToday[1] - 2

\* C22: a run of _compute_all_stats that follows a run over the same
\* activity log on the same date writes the same set of rollup documents
\* and leaves every stored document as it was, computedAt excepted.
C22_RunIdempotent ==
    [][(statRuns'.total > statRuns.total /\ statRuns.sinceChange >= 1) =>
          /\ statRuns'.written = statRuns.written
          /\ DOMAIN statDocs' = DOMAIN statDocs
          /\ \A id \in DOMAIN statDocs :
                statDocs'[id] = [statDocs[id] EXCEPT !.computedAt = statDocs'[id].computedAt]]_vars

\* a second run over a log that was changed after an earlier run, with
\* activities in the rollups
C22_Witness ==
    /\ statRuns.sinceChange = 2
    /\ statRuns.total > 2
    /\ ~statRuns.raised
    /\ \E id \in statRuns.written :
          statDocs[id].activityCount > 0 /\ statDocs[id].computedAt = statRuns.total

\* the loaded activities a stored document's period covers, and those of
\* them whose type descriptor is missing or malformed
Covered(d) ==
    {a \in Loaded(statLog) :
        /\ statLog[a].startTimeLocal # <<>>
        /\ StrLeq(d.periodStart, statLog[a].startTimeLocal)
        /\ StrLeq(statLog[a].startTimeLocal, d.periodEnd)}
Malformed(act) ==
    \/ "activityType" \notin DOMAIN act
    \/ act.activityType.kind # "dict"
    \/ act.activityType.typeKey = <<>>
    \/ act.activityType.typeKey = <<NoValue>>
RECURSIVE SumByType(_, _, _)
SumByType(byType, types, field) ==
    IF types = {} THEN 0
    ELSE LET t == CHOOSE x \in types : TRUE IN
         byType[t][field] + SumByType(byType, types \ {t}, field)
DocsCovering(kind, a) ==
    {id \in DOMAIN statDocs : id[1] = kind /\ a \in Covered(statDocs[id])}

\* C30: after a run of _compute_all_stats over the current activity log,
\* every rollup document it wrote has activityCount equal to the number of
\* loaded activities dated within its period, byType counts that sum to
\* activityCount and byType durations, distances and calories that sum to
\* the totals, counts every covered activity with a missing or malformed
\* type descriptor under 'other'; and every dated activity is in exactly one
\* yearly document and in at most one weekly and one monthly document.
C30_RollupsConsistent ==
    statRuns.sinceChange >= 1 =>
        /\ \A id \in statRuns.written :
              \A d \in {statDocs[id]} : \A in \in {Covered(statDocs[id])} :
              /\ d.activityCount = Cardinality(in)
              /\ SumByType(d.byType, DOMAIN d.byType, "count") = d.activityCount
              /\ SumByType(d.byType, DOMAIN d.byType, "duration") = d.totalDurationSeconds
              /\ SumByType(d.byType, DOMAIN d.byType, "distance") = d.totalDistanceMeters
              /\ SumByType(d.byType, DOMAIN d.byType, "calories") = d.totalCalories
              /\ \A bad \in {{a \in in : Malformed(statLog[a])}} :
                    bad # {} => /\ "other" \in DOMAIN d.byType
                                /\ d.byType["other"].count >= Cardinality(bad)
        /\ \A a \in Loaded(statLog) :
              statLog[a].startTimeLocal # <<>> =>
                  /\ Cardinality(DocsCovering("year", a)) = 1
                  /\ Cardinality(DocsCovering("month", a)) <= 1
                  /\ Cardinality(DocsCovering("week", a)) <= 1

====
